---- MODULE Spec2Model ----
(***************************************************************************)
(* A model of the RuiLian scripting language: the Environment chain        *)
(* (src/src/environment.rs) and the tree-walking Interpreter               *)
(* (src/src/interpreter.rs) over the AST of src/src/ast.rs.                *)
(*                                                                         *)
(* Rust Strings are sequences of one-character strings, Rc<RefCell<        *)
(* Environment>> handles are indices into the arena `frames`, a HashMap is *)
(* a function on the set of its keys, Option is a record with a `some`     *)
(* flag, and a panic! is the status "panic", which ends the run.           *)
(***************************************************************************)
EXTENDS Integers, Sequences, FiniteSets, TLC

VARIABLES
    frames,       \* arena of Environment frames: [values, enclosing]
    environment,  \* Interpreter.environment: index of the current frame
    saved,        \* previous_env locals of the constructs being executed
    ret,          \* what the last operation returned to its caller
    output,       \* characters written to stdout by the last statement
    status,       \* "ok", "panic" (the run was aborted) or "exhausted"
    executed,     \* number of top-level statements interpreted so far
    trace,        \* history of the last top-level statement
    scanner,      \* the Scanner and the tokens it has pushed, or None
    parser        \* the Parser and the statements it has pushed, or None

envVars == <<frames, environment, saved, ret>>
runVars == <<output, status, executed, trace, scanner, parser>>
vars == <<frames, environment, saved, ret, output, status, executed, trace,
         scanner, parser>>

----------------------------------------------------------------------------
(* Bounds *)

MaxFrames == 3      \* frames in the arena of the Environment harness
MaxProgLen == 4     \* top-level statements of an interpreted Program
MaxSteps == 6       \* loop iterations and calls within one statement
MaxSourceLen == 3   \* characters of the enumerated source texts
MaxTokens == 3      \* tokens of the enumerated token sequences

----------------------------------------------------------------------------
(* Strings and names *)

\* the characters of an identifier or key of the interpreted scripts
Id(name) ==
    CASE name = "deep" -> <<"d", "e", "e", "p">>
      [] name = "outer" -> <<"o", "u", "t", "e", "r">>
      [] name = "quiet" -> <<"q", "u", "i", "e", "t">>
      [] name = "bare" -> <<"b", "a", "r", "e">>
      [] name = "pair" -> <<"p", "a", "i", "r">>
      [] name = "peek" -> <<"p", "e", "e", "k">>
      [] name = "put" -> <<"p", "u", "t">>
      [] name = "get" -> <<"g", "e", "t">>
      [] name = "val" -> <<"v", "a", "l">>
      [] OTHER -> <<name>>

----------------------------------------------------------------------------
(* Value (environment.rs) *)

Number(n)  == [tag |-> "Number", n |-> n]
String(s)  == [tag |-> "String", s |-> s]
Boolean(b) == [tag |-> "Boolean", b |-> b]
Array(arr) == [tag |-> "Array", arr |-> arr]
Map(map)   == [tag |-> "Map", map |-> map]
Function(name, params, body, closure) ==
    [tag |-> "Function", name |-> name, params |-> params, body |-> body,
     closure |-> closure]

None    == [some |-> FALSE]
Some(v) == [some |-> TRUE, value |-> v]

\* HashMap::new and HashMap::insert
EmptyMap == <<>>
Insert(map, key, value) == (key :> value) @@ map

----------------------------------------------------------------------------
(* Environment (environment.rs) *)

\* Environment::new: a frame without an enclosing frame (0 is Option::None)
Environment_new == [values |-> EmptyMap, enclosing |-> 0]

\* Environment::new_enclosed: the arena extended with a child of `enclosing`;
\* the handle of the new frame is Len of the result.
new_enclosed(fr, enclosing) ==
    Append(fr, [values |-> EmptyMap, enclosing |-> enclosing])

\* the frames visited from env outward, innermost first
RECURSIVE Chain(_, _)
Chain(fr, env) ==
    IF fr[env].enclosing = 0 THEN <<env>>
    ELSE <<env>> \o Chain(fr, fr[env].enclosing)

\* a variant of define that binds in the root of the chain
define_in_root(fr, env, name, value) ==
    [fr EXCEPT ![Chain(fr, env)[Len(Chain(fr, env))]].values =
                   Insert(@, name, value)]

define(fr, env, name, value) ==
    [fr EXCEPT ![env].values = Insert(@, name, value)]

\* a variant of get that does not look into the enclosing frames
get_current_frame_only(fr, env, name) ==
    IF name \in DOMAIN fr[env].values
    THEN Some(fr[env].values[name])
    ELSE None

RECURSIVE get(_, _, _)
get(fr, env, name) ==
    IF name \in DOMAIN fr[env].values
    THEN Some(fr[env].values[name])
    ELSE IF fr[env].enclosing # 0
         THEN get(fr, fr[env].enclosing, name)
         ELSE None

\* a variant of assign that binds an unbound name in the root frame
assign_implicit_global(fr, env, name, value) ==
    LET RECURSIVE walk(_)
        walk(e) ==
            IF name \in DOMAIN fr[e].values \/ fr[e].enclosing = 0
            THEN [ok |-> TRUE,
                  frames |-> [fr EXCEPT ![e].values = Insert(@, name, value)]]
            ELSE walk(fr[e].enclosing)
    IN walk(env)

RECURSIVE assign(_, _, _, _)
assign(fr, env, name, value) ==
    IF name \in DOMAIN fr[env].values
    THEN [ok |-> TRUE,
          frames |-> [fr EXCEPT ![env].values = Insert(@, name, value)]]
    ELSE IF fr[env].enclosing # 0
         THEN assign(fr, fr[env].enclosing, name, value)
         ELSE [ok |-> FALSE, frames |-> fr]

----------------------------------------------------------------------------
(* The Environment operations driven the way the Interpreter drives them:   *)
(* a scope is entered by new_enclosed on the current frame (block, loop     *)
(* iteration) or on any live frame (a closure, for a call), and is left by  *)
(* restoring the saved handle.                                              *)

EnvNames  == {Id("x"), Id("y")}
EnvValues == {Number(1), Number(2)}

EnvInit ==
    /\ frames = <<Environment_new>>
    /\ environment = 1
    /\ saved = <<>>
    /\ ret = [op |-> "new"]
    /\ output = <<>>
    /\ status = "ok"
    /\ executed = 0
    /\ trace = <<>>
    /\ scanner = None
    /\ parser = None

EnvDefine(name, value) ==
    /\ frames' = define(frames, environment, name, value)
    /\ ret' = [op |-> "define", name |-> name, value |-> value]
    /\ UNCHANGED <<environment, saved>>
    /\ UNCHANGED runVars

EnvGet(name) ==
    /\ ret' = [op |-> "get", name |-> name,
               result |-> get(frames, environment, name)]
    /\ UNCHANGED <<frames, environment, saved>>
    /\ UNCHANGED runVars

EnvAssign(name, value) ==
    LET r == assign(frames, environment, name, value)
    IN /\ frames' = r.frames
       /\ ret' = [op |-> "assign", name |-> name, value |-> value,
                  ok |-> r.ok]
       /\ UNCHANGED <<environment, saved>>
       /\ UNCHANGED runVars

EnvEnter(enclosing) ==
    /\ Len(frames) < MaxFrames
    /\ frames' = new_enclosed(frames, enclosing)
    /\ environment' = Len(frames) + 1
    /\ saved' = Append(saved, environment)
    /\ ret' = [op |-> "enter"]
    /\ UNCHANGED runVars

EnvLeave ==
    /\ saved # <<>>
    /\ environment' = saved[Len(saved)]
    /\ saved' = SubSeq(saved, 1, Len(saved) - 1)
    /\ ret' = [op |-> "leave"]
    /\ UNCHANGED frames
    /\ UNCHANGED runVars

EnvNext ==
    \/ \E name \in EnvNames, value \in EnvValues : EnvDefine(name, value)
    \/ \E name \in EnvNames : EnvGet(name)
    \/ \E name \in EnvNames, value \in EnvValues : EnvAssign(name, value)
    \/ \E enclosing \in 1..Len(frames) : EnvEnter(enclosing)
    \/ EnvLeave

SpecEnv == EnvInit /\ [][EnvNext]_vars

----------------------------------------------------------------------------
(* AST (ast.rs) *)

ENumber(n)  == [expr |-> "Number", value |-> n]
EString(s)  == [expr |-> "String", value |-> s]
EBoolean(b) == [expr |-> "Boolean", value |-> b]
EVariable(name) == [expr |-> "Variable", name |-> name]
EAssign(name, value) == [expr |-> "Assign", name |-> name, value |-> value]
EBinary(left, operator, right) ==
    [expr |-> "Binary", left |-> left, operator |-> operator, right |-> right]
ELogical(left, operator, right) ==
    [expr |-> "Logical", left |-> left, operator |-> operator, right |-> right]
EUnary(operator, right) ==
    [expr |-> "Unary", operator |-> operator, right |-> right]
ECall(callee, arguments) ==
    [expr |-> "Call", callee |-> callee, arguments |-> arguments]
EArray(elements) == [expr |-> "Array", elements |-> elements]
\* pairs is a sequence of <<key, expression>>
EMap(pairs) == [expr |-> "Map", pairs |-> pairs]
EIndex(object, index) ==
    [expr |-> "Index", object |-> object, index |-> index]
EIndexAssign(object, index, value) ==
    [expr |-> "IndexAssign", object |-> object, index |-> index,
     value |-> value]
EDot(object, field) == [expr |-> "Dot", object |-> object, field |-> field]
EDotAssign(object, field, value) ==
    [expr |-> "DotAssign", object |-> object, field |-> field,
     value |-> value]

SExpr(e) == [stmt |-> "Expr", expr |-> e]
\* initializer, else_branch and the value of a return are Options
SLet(name, initializer) ==
    [stmt |-> "Let", name |-> name, initializer |-> initializer]
SPrint(e) == [stmt |-> "Print", expr |-> e]
SBlock(statements) == [stmt |-> "Block", statements |-> statements]
SIf(condition, then_branch, else_branch) ==
    [stmt |-> "If", condition |-> condition, then_branch |-> then_branch,
     else_branch |-> else_branch]
SWhile(condition, body) ==
    [stmt |-> "While", condition |-> condition, body |-> body]
SFor(variable, iterable, body) ==
    [stmt |-> "For", variable |-> variable, iterable |-> iterable,
     body |-> body]
SFunction(name, params, body) ==
    [stmt |-> "Function", name |-> name, params |-> params, body |-> body]
SReturn(value) == [stmt |-> "Return", value |-> value]

----------------------------------------------------------------------------
(* Helpers of the Interpreter (interpreter.rs, "---- Helpers ----") *)

is_truthy(value) ==
    CASE value.tag = "Number"   -> value.n # 0
      [] value.tag = "String"   -> value.s # <<>>
      [] value.tag = "Boolean"  -> value.b
      [] value.tag = "Function" -> TRUE
      [] value.tag = "Array"    -> value.arr # <<>>
      [] value.tag = "Map"      -> DOMAIN value.map # {}

Digits == <<"0", "1", "2", "3", "4", "5", "6", "7", "8", "9">>

\* i64::to_string
RECURSIVE to_string(_)
to_string(n) ==
    IF n < 0 THEN <<"-">> \o to_string(0 - n)
    ELSE IF n < 10 THEN <<Digits[n + 1]>>
    ELSE to_string(n \div 10) \o <<Digits[(n % 10) + 1]>>

\* [String]::join
RECURSIVE join(_, _)
join(items, sep) ==
    IF items = <<>> THEN <<>>
    ELSE IF Len(items) = 1 THEN items[1]
    ELSE items[1] \o sep \o join(Tail(items), sep)

\* One iteration order of a HashMap's keys.  Rust leaves the order
\* unspecified; only the rendering of a Map with several keys depends on it.
RECURSIVE iter_keys(_)
iter_keys(keys) ==
    IF keys = {} THEN <<>>
    ELSE LET k == CHOOSE k \in keys : TRUE
         IN <<k>> \o iter_keys(keys \ {k})

RECURSIVE value_to_string(_)
value_to_string(value) ==
    CASE value.tag = "Number"   -> to_string(value.n)
      [] value.tag = "String"   -> value.s
      [] value.tag = "Boolean"  ->
            IF value.b THEN <<"t", "r", "u", "e">>
            ELSE <<"f", "a", "l", "s", "e">>
      [] value.tag = "Function" ->
            <<"<", "f", "u", "n", "c", "t", "i", "o", "n", " ">>
                \o value.name \o <<">">>
      [] value.tag = "Array"    ->
            <<"[">> \o join([i \in 1..Len(value.arr) |->
                                 value_to_string(value.arr[i])], <<",", " ">>)
                \o <<"]">>
      [] value.tag = "Map"      ->
            LET keys == iter_keys(DOMAIN value.map)
            IN <<"{">> \o join([i \in 1..Len(keys) |->
                                   keys[i] \o <<":", " ">>
                                       \o value_to_string(value.map[keys[i]])],
                               <<",", " ">>)
                \o <<"}">>

\* a variant of value_eq for which a Function is equal to itself
RECURSIVE value_eq_function_is_itself(_, _)
value_eq_function_is_itself(a, b) ==
    CASE a.tag = "Number" /\ b.tag = "Number"   -> a.n = b.n
      [] a.tag = "String" /\ b.tag = "String"   -> a.s = b.s
      [] a.tag = "Boolean" /\ b.tag = "Boolean" -> a.b = b.b
      [] a.tag = "Array" /\ b.tag = "Array"     ->
            /\ Len(a.arr) = Len(b.arr)
            /\ \A i \in 1..Len(a.arr) :
                   value_eq_function_is_itself(a.arr[i], b.arr[i])
      [] a.tag = "Map" /\ b.tag = "Map"         ->
            /\ DOMAIN a.map = DOMAIN b.map
            /\ \A k \in DOMAIN a.map :
                   value_eq_function_is_itself(a.map[k], b.map[k])
      [] a.tag = "Function" /\ b.tag = "Function" -> a = b
      [] OTHER -> FALSE

\* Value::eq (environment.rs): structural, a Function equals nothing
RECURSIVE value_eq(_, _)
value_eq(a, b) ==
    CASE a.tag = "Number" /\ b.tag = "Number"   -> a.n = b.n
      [] a.tag = "String" /\ b.tag = "String"   -> a.s = b.s
      [] a.tag = "Boolean" /\ b.tag = "Boolean" -> a.b = b.b
      [] a.tag = "Array" /\ b.tag = "Array"     ->
            /\ Len(a.arr) = Len(b.arr)
            /\ \A i \in 1..Len(a.arr) : value_eq(a.arr[i], b.arr[i])
      [] a.tag = "Map" /\ b.tag = "Map"         ->
            /\ DOMAIN a.map = DOMAIN b.map
            /\ \A k \in DOMAIN a.map : value_eq(a.map[k], b.map[k])
      [] OTHER -> FALSE

\* The binary helpers return [ok, value]; ok = FALSE is their panic!.
Fine(value) == [ok |-> TRUE, value |-> value]
Fail(message) == [ok |-> FALSE, message |-> message]

add_values(left, right) ==
    IF left.tag = "String"
    THEN Fine(String(left.s \o value_to_string(right)))
    ELSE IF right.tag = "String"
    THEN Fine(String(value_to_string(left) \o right.s))
    ELSE IF left.tag = "Array" /\ right.tag = "Array"
    THEN Fine(Array(left.arr \o right.arr))
    ELSE IF left.tag = "Number" /\ right.tag = "Number"
    THEN Fine(Number(left.n + right.n))
    ELSE Fail("Cannot add")

subtract_values(left, right) ==
    IF left.tag = "Number" /\ right.tag = "Number"
    THEN Fine(Number(left.n - right.n))
    ELSE Fail("Cannot subtract")

multiply_values(left, right) ==
    IF left.tag = "Number" /\ right.tag = "Number"
    THEN Fine(Number(left.n * right.n))
    ELSE Fail("Cannot multiply")

Abs(n) == IF n < 0 THEN 0 - n ELSE n

\* a variant of divide_values for which a division by zero yields 0
divide_values_zero_divisor_gives_zero(left, right) ==
    IF left.tag = "Number" /\ right.tag = "Number"
    THEN IF right.n = 0
         THEN Fine(Number(0))
         ELSE IF (left.n < 0) = (right.n < 0)
              THEN Fine(Number(Abs(left.n) \div Abs(right.n)))
              ELSE Fine(Number(0 - (Abs(left.n) \div Abs(right.n))))
    ELSE Fail("Cannot divide")

\* i64 division truncates toward zero
divide_values(left, right) ==
    IF left.tag = "Number" /\ right.tag = "Number"
    THEN IF right.n = 0
         THEN Fail("Division by zero")
         ELSE IF (left.n < 0) = (right.n < 0)
              THEN Fine(Number(Abs(left.n) \div Abs(right.n)))
              ELSE Fine(Number(0 - (Abs(left.n) \div Abs(right.n))))
    ELSE Fail("Cannot divide")

compare_greater(left, right) ==
    IF left.tag = "Number" /\ right.tag = "Number"
    THEN Fine(Boolean(left.n > right.n))
    ELSE Fail("Cannot compare >")

compare_greater_equal(left, right) ==
    IF left.tag = "Number" /\ right.tag = "Number"
    THEN Fine(Boolean(left.n >= right.n))
    ELSE Fail("Cannot compare >=")

compare_less(left, right) ==
    IF left.tag = "Number" /\ right.tag = "Number"
    THEN Fine(Boolean(left.n < right.n))
    ELSE Fail("Cannot compare <")

compare_less_equal(left, right) ==
    IF left.tag = "Number" /\ right.tag = "Number"
    THEN Fine(Boolean(left.n <= right.n))
    ELSE Fail("Cannot compare <=")

compare_equal(left, right) ==
    IF left.tag = right.tag
       /\ left.tag \in {"Number", "String", "Boolean", "Array", "Map"}
    THEN Fine(Boolean(value_eq(left, right)))
    ELSE Fine(Boolean(FALSE))

compare_not_equal(left, right) ==
    IF left.tag = right.tag
       /\ left.tag \in {"Number", "String", "Boolean", "Array", "Map"}
    THEN Fine(Boolean(~value_eq(left, right)))
    ELSE Fine(Boolean(TRUE))

----------------------------------------------------------------------------
(* Interpreter (interpreter.rs).                                            *)
(*                                                                          *)
(* evaluate and execute are functions of the interpreter state s:           *)
(*   frames, environment  the arena and Interpreter.environment             *)
(*   output               the characters written to stdout                  *)
(*   status, message      "ok", or "panic" with the panic! message, or      *)
(*                        "exhausted" when MaxSteps loop iterations and     *)
(*                        calls were spent                                  *)
(*   fuel                 loop iterations and calls left                    *)
(*   call                 handle of the call_env of the innermost running   *)
(*                        call (0 at top level)                             *)
(*   trace                history of what was executed, for the properties  *)
(* evaluate returns [value, s]; execute returns [s, result] where result is *)
(* Ok(()) or Err(value), the propagating return.                            *)

Nothing == [tag |-> "Nothing"]
Val(value, s) == [value |-> value, s |-> s]
Abort(s, message) ==
    Val(Nothing, [s EXCEPT !.status = "panic", !.message = message])
Exhausted(s) == [s EXCEPT !.status = "exhausted"]

OkResult == [err |-> FALSE]
Err(value) == [err |-> TRUE, value |-> value]
Done(s, result) == [s |-> s, result |-> result]

Running(s) == s.status = "ok"
Log(s, event) == [s EXCEPT !.trace = Append(@, event)]
Write(s, text) == [s EXCEPT !.output = @ \o text]

\* `idx as usize`: the two's-complement reinterpretation of a signed index,
\* idx itself when idx >= 0 and idx + 2^64, above isize::MAX, when idx < 0.
\* Model integers are narrower than 64 bits and the result is only compared
\* with a length, which is at most isize::MAX, so UsizeMax, the largest
\* model integer, stands for every offset above isize::MAX.
UsizeMax == 2147483647

\* a variant of as_usize that takes the magnitude of a negative index
as_usize_magnitude(idx) == IF idx >= 0 THEN idx ELSE 0 - idx

as_usize(idx) == IF idx >= 0 THEN idx ELSE UsizeMax

RECURSIVE evaluate(_, _)
RECURSIVE execute(_, _)

\* Each handler names the value of a sub-evaluation once and hands it to the
\* step that consumes it: `step(r) == ..` is the code after `let r = ..;`.

\* elements.iter().map(|e| self.evaluate(e)).collect()
RECURSIVE evaluate_elements(_, _)
evaluate_elements(elements, s) ==
    IF elements = <<>> THEN [values |-> <<>>, s |-> s]
    ELSE LET collect(r, rest) ==
                 [values |-> <<r.value>> \o rest.values, s |-> rest.s]
             first(r) == collect(r, evaluate_elements(Tail(elements), r.s))
         IN first(evaluate(Head(elements), s))

\* the loop of Expr::Map: evaluate each value, insert it under its key
RECURSIVE evaluate_pairs(_, _, _)
evaluate_pairs(pairs, map, s) ==
    IF pairs = <<>> THEN Val(Map(map), s)
    ELSE LET insert(r) ==
                 IF ~Running(r.s) THEN Val(Nothing, r.s)
                 ELSE evaluate_pairs(Tail(pairs),
                                     Insert(map, Head(pairs)[1], r.value), r.s)
         IN insert(evaluate(Head(pairs)[2], s))

evaluate_Variable(e, s) ==
    LET found == get(s.frames, s.environment, e.name)
    IN IF found.some THEN Val(found.value, s)
       ELSE Abort(s, "Undefined variable")

evaluate_Assign(e, s) ==
    LET store(r, a) ==
            IF ~a.ok THEN Abort(r.s, "Undefined variable in assignment")
            ELSE Val(r.value, [r.s EXCEPT !.frames = a.frames])
        value(r) ==
            IF ~Running(r.s) THEN r
            ELSE store(r, assign(r.s.frames, r.s.environment, e.name,
                                 r.value))
    IN value(evaluate(e.value, s))

evaluate_Binary(e, s) ==
    LET apply(l, r) ==
            CASE e.operator = "Add" -> add_values(l, r)
              [] e.operator = "Subtract" -> subtract_values(l, r)
              [] e.operator = "Multiply" -> multiply_values(l, r)
              [] e.operator = "Divide" -> divide_values(l, r)
              [] e.operator = "Greater" -> compare_greater(l, r)
              [] e.operator = "GreaterEqual" -> compare_greater_equal(l, r)
              [] e.operator = "Less" -> compare_less(l, r)
              [] e.operator = "LessEqual" -> compare_less_equal(l, r)
              [] e.operator = "EqualEqual" -> compare_equal(l, r)
              [] e.operator = "BangEqual" -> compare_not_equal(l, r)
        result(r, b) ==
            IF b.ok THEN Val(b.value, r.s) ELSE Abort(r.s, b.message)
        right(l, r) ==
            IF ~Running(r.s) THEN Val(Nothing, r.s)
            ELSE result(r, apply(l.value, r.value))
        left(l) == right(l, evaluate(e.right, l.s))
    IN left(evaluate(e.left, s))

\* a variant of evaluate_Logical that evaluates both operands first
evaluate_Logical_eager(e, s) ==
    LET right(l, r) ==
            IF ~Running(r.s) THEN r
            ELSE IF e.operator = "And"
                 THEN IF ~is_truthy(l.value) THEN Val(Boolean(FALSE), r.s)
                      ELSE r
                 ELSE IF is_truthy(l.value) THEN Val(Boolean(TRUE), r.s)
                      ELSE r
        left(l) == IF ~Running(l.s) THEN l
                   ELSE right(l, evaluate(e.right, l.s))
    IN left(evaluate(e.left, s))

evaluate_Logical(e, s) ==
    LET left(l) ==
            IF ~Running(l.s) THEN l
            ELSE IF e.operator = "And"
                 THEN IF ~is_truthy(l.value) THEN Val(Boolean(FALSE), l.s)
                      ELSE evaluate(e.right, l.s)
                 ELSE IF is_truthy(l.value) THEN Val(Boolean(TRUE), l.s)
                      ELSE evaluate(e.right, l.s)
    IN left(evaluate(e.left, s))

evaluate_Unary(e, s) ==
    LET right(r) ==
            IF ~Running(r.s) THEN r
            ELSE IF e.operator = "Negate"
                 THEN IF r.value.tag = "Number"
                      THEN Val(Number(0 - r.value.n), r.s)
                      ELSE Abort(r.s, "Cannot negate non-number")
                 ELSE Val(Boolean(~is_truthy(r.value)), r.s)
    IN right(evaluate(e.right, s))

evaluate_Array(e, s) ==
    LET collected(r) ==
            IF ~Running(r.s) THEN Val(Nothing, r.s)
            ELSE Val(Array(r.values), r.s)
    IN collected(evaluate_elements(e.elements, s))

evaluate_Map(e, s) == evaluate_pairs(e.pairs, EmptyMap, s)

evaluate_Index(e, s) ==
    LET read(o, i) ==
            IF ~Running(i.s) THEN Val(Nothing, i.s)
            ELSE IF o.value.tag = "Array" /\ i.value.tag = "Number"
            THEN IF as_usize(i.value.n) >= Len(o.value.arr)
                 THEN Abort(i.s, "Array index out of bounds")
                 ELSE Val(o.value.arr[as_usize(i.value.n) + 1], i.s)
            ELSE IF o.value.tag = "Map" /\ i.value.tag = "String"
            THEN IF i.value.s \in DOMAIN o.value.map
                 THEN Val(o.value.map[i.value.s], i.s)
                 ELSE Val(Number(0), i.s)
            ELSE IF o.value.tag = "Map"
            THEN Abort(i.s, "Map key must be a string")
            ELSE Abort(i.s, "Cannot index non-array or non-map")
        object(o) == read(o, evaluate(e.index, o.s))
    IN object(evaluate(e.object, s))

\* a variant of write_back for collections shared between bindings: every
\* binding that holds the collection written to holds the updated one
write_back_shared(object, updated, s) ==
    IF object.expr = "Variable"
    THEN LET old == get(s.frames, s.environment, object.name).value
             shared(values) ==
                 [name \in DOMAIN values |->
                     IF values[name] = old THEN updated ELSE values[name]]
         IN [s EXCEPT !.frames =
                [k \in DOMAIN s.frames |->
                    [s.frames[k] EXCEPT !.values = shared(@)]]]
    ELSE s

\* a variant of write_back that assigns to the variable an index or field
\* chain starts from
write_back_to_chain_root(object, updated, s) ==
    LET RECURSIVE root(_)
        root(e) == IF e.expr \in {"Index", "Dot"} THEN root(e.object) ELSE e
    IN IF root(object).expr = "Variable"
       THEN [s EXCEPT !.frames =
                 assign(s.frames, s.environment, root(object).name,
                        updated).frames]
       ELSE s

\* the copy-back of an index or field write: only when the object
\* expression is a bare variable is the updated collection assigned to it
\* (the result of assign is discarded)
write_back(object, updated, s) ==
    IF object.expr = "Variable"
    THEN [s EXCEPT !.frames =
              assign(s.frames, s.environment, object.name, updated).frames]
    ELSE s

\* a variant of evaluate_IndexAssign that reads the object after the index
\* and the value were evaluated
evaluate_IndexAssign_rereads(e, s) ==
    LET store(i, v, o) ==
            IF ~Running(o.s) THEN Val(Nothing, o.s)
            ELSE IF o.value.tag = "Map" /\ i.value.tag = "String"
            THEN Val(v.value,
                     write_back(e.object,
                                Map(Insert(o.value.map, i.value.s, v.value)),
                                o.s))
            ELSE IF o.value.tag = "Array" /\ i.value.tag = "Number"
            THEN IF as_usize(i.value.n) >= Len(o.value.arr)
                 THEN Abort(o.s, "Array index out of bounds")
                 ELSE Val(v.value,
                          write_back(e.object,
                                     Array([o.value.arr EXCEPT
                                               ![as_usize(i.value.n) + 1] =
                                                   v.value]),
                                     o.s))
            ELSE Abort(o.s, "Cannot assign to non-array or non-map index")
        value(i, v) == store(i, v, evaluate(e.object, v.s))
        index(i) == value(i, evaluate(e.value, i.s))
    IN index(evaluate(e.index, s))

evaluate_IndexAssign(e, s) ==
    LET store(o, i, v) ==
            IF ~Running(v.s) THEN Val(Nothing, v.s)
            ELSE IF o.value.tag = "Map" /\ i.value.tag = "String"
            THEN Val(v.value,
                     write_back(e.object,
                                Map(Insert(o.value.map, i.value.s, v.value)),
                                v.s))
            ELSE IF o.value.tag = "Array" /\ i.value.tag = "Number"
            THEN IF as_usize(i.value.n) >= Len(o.value.arr)
                 THEN Abort(v.s, "Array index out of bounds")
                 ELSE Val(v.value,
                          write_back(e.object,
                                     Array([o.value.arr EXCEPT
                                               ![as_usize(i.value.n) + 1] =
                                                   v.value]),
                                     v.s))
            ELSE Abort(v.s, "Cannot assign to non-array or non-map index")
        index(o, i) == store(o, i, evaluate(e.value, i.s))
        object(o) == index(o, evaluate(e.index, o.s))
    IN object(evaluate(e.object, s))

\* a variant of evaluate_Dot that stores the default under a missing field
evaluate_Dot_inserts_default(e, s) ==
    LET object(o) ==
            IF ~Running(o.s) THEN o
            ELSE IF o.value.tag = "Map"
            THEN IF e.field \in DOMAIN o.value.map
                 THEN Val(o.value.map[e.field], o.s)
                 ELSE Val(Number(0),
                          write_back(e.object,
                                     Map(Insert(o.value.map, e.field,
                                                Number(0))),
                                     o.s))
            ELSE Abort(o.s, "Cannot access field on non-map value")
    IN object(evaluate(e.object, s))

evaluate_Dot(e, s) ==
    LET object(o) ==
            IF ~Running(o.s) THEN o
            ELSE IF o.value.tag = "Map"
            THEN IF e.field \in DOMAIN o.value.map
                 THEN Val(o.value.map[e.field], o.s)
                 ELSE Val(Number(0), o.s)
            ELSE Abort(o.s, "Cannot access field on non-map value")
    IN object(evaluate(e.object, s))

evaluate_DotAssign(e, s) ==
    LET store(o, v) ==
            IF ~Running(v.s) THEN Val(Nothing, v.s)
            ELSE IF o.value.tag = "Map"
            THEN Val(v.value,
                     write_back(e.object,
                                Map(Insert(o.value.map, e.field, v.value)),
                                v.s))
            ELSE Abort(v.s, "Cannot assign to field on non-map value")
        object(o) == store(o, evaluate(e.value, o.s))
    IN object(evaluate(e.object, s))

\* arguments.iter().map(|arg| self.evaluate(arg)).collect(), in the caller's
\* environment, after call_env was created
RECURSIVE evaluate_arguments(_, _, _, _)
evaluate_arguments(arguments, k, call_env, s) ==
    IF k > Len(arguments) THEN [values |-> <<>>, s |-> s]
    ELSE LET collect(r, rest) ==
                 [values |-> <<r.value>> \o rest.values, s |-> rest.s]
             argument(r) ==
                 collect(r, evaluate_arguments(arguments, k + 1, call_env,
                     IF Running(r.s)
                     THEN Log(r.s, [ev |-> "arg", call |-> call_env,
                                    index |-> k, env |-> s.environment,
                                    value |-> r.value])
                     ELSE r.s))
         IN argument(evaluate(arguments[k], s))

\* for (param, arg_value) in params.zip(arg_values) { call_env.define(..) }
RECURSIVE bind_parameters(_, _, _, _, _)
bind_parameters(params, arg_values, k, call_env, s) ==
    IF k > Len(params) \/ k > Len(arg_values) THEN s
    ELSE bind_parameters(params, arg_values, k + 1, call_env,
            Log([s EXCEPT !.frames =
                     define(@, call_env, params[k], arg_values[k])],
                [ev |-> "bind", call |-> call_env, param |-> params[k],
                 value |-> arg_values[k]]))

\* for stmt in &function.body: stop at the first Err
RECURSIVE run_body(_, _)
run_body(body, s) ==
    IF body = <<>> THEN Done(s, OkResult)
    ELSE LET next(r) == IF ~Running(r.s) \/ r.result.err THEN r
                        ELSE run_body(Tail(body), r.s)
         IN next(execute(Head(body), s))

\* a variant of new_call_env that encloses the frame of the caller
new_call_env_in_caller(function, s) == new_enclosed(s.frames, s.environment)

\* a variant of new_call_env whose call frame is a clone of the closure
\* frame (Environment::clone) instead of a child of the shared frame
new_call_env_clones_closure(function, s) ==
    Append(s.frames, s.frames[function.closure])

\* let call_env = Environment::new_enclosed(&function.closure)
new_call_env(function, s) == new_enclosed(s.frames, function.closure)

\* a variant of return_value without the default
return_value_absent_is_nothing(result) ==
    IF result.err THEN result.value ELSE Nothing

\* if return_occurred { return_value } else { Value::Number(0) }
return_value(result) ==
    IF result.err THEN result.value ELSE Number(0)

\* a variant of arity_mismatch that lets every call through
arity_mismatch_ignored(arguments, function) == FALSE

\* if arguments.len() != function.params.len() { panic!(..) }
arity_mismatch(arguments, function) ==
    Len(arguments) # Len(function.params)

\* The steps of call_user_function in the order of the code, last first:
\*   callee    the callee expression is evaluated and must be a Function
\*             of as many parameters as there are arguments
\*   call_env  Environment::new_enclosed(function.closure), then the
\*             arguments are evaluated
\*   bound     the parameters are defined in call_env
\*   entered   self.environment = call_env, the body runs
\*   left      self.environment = previous_env
\*   result    Err(value) => value, Ok(()) => Number(0)
call_user_function(callee, arguments, s) ==
    LET result(call_env, before, body, value, s4) ==
            Val(value,
                Log(s4, [ev |-> "result", call |-> call_env,
                         value |-> value,
                         returned |-> body.result.err,
                         before |-> before,
                         after |-> s4.environment]))
        left(call_env, before, previous_env, previous_call, body) ==
            IF ~Running(body.s) THEN Val(Nothing, body.s)
            ELSE result(call_env, before, body, return_value(body.result),
                        [body.s EXCEPT !.environment = previous_env,
                                       !.call = previous_call])
        entered(function, call_env, before, s2) ==
            left(call_env, before, s2.environment, s2.call,
                 run_body(function.body,
                     Log([s2 EXCEPT !.environment = call_env,
                                    !.call = call_env],
                         [ev |-> "call", call |-> call_env,
                          name |-> function.name,
                          params |-> function.params,
                          closure |-> function.closure,
                          caller |-> s2.environment,
                          parent |-> s2.frames[call_env].enclosing,
                          visible |-> DOMAIN s2.frames[call_env].values])))
        bound(function, call_env, before, args) ==
            IF ~Running(args.s) THEN Val(Nothing, args.s)
            ELSE entered(function, call_env, before,
                         bind_parameters(function.params, args.values, 1,
                                         call_env, args.s))
        called(c, function, call_env) ==
            IF ~Running(c.s) THEN c
            ELSE IF function.tag # "Function"
            THEN Abort(c.s, "Can only call functions")
            ELSE IF arity_mismatch(arguments, function)
            THEN Abort(c.s, "Expected N arguments but got M")
            ELSE IF c.s.fuel = 0 THEN Val(Nothing, Exhausted(c.s))
            ELSE bound(function, call_env, c.s.environment,
                       evaluate_arguments(arguments, 1, call_env,
                           [c.s EXCEPT
                               !.frames = new_call_env(function, c.s),
                               !.fuel = @ - 1]))
        callee_value(c) == called(c, c.value, Len(c.s.frames) + 1)
    IN callee_value(evaluate(callee, s))

\* the arguments of the intrinsic print: print!("{} ", ..) for each
RECURSIVE print_arguments(_, _)
print_arguments(arguments, s) ==
    IF arguments = <<>> THEN s
    ELSE LET printed(r) ==
                 IF ~Running(r.s) THEN r.s
                 ELSE print_arguments(Tail(arguments),
                         Write(r.s, value_to_string(r.value) \o <<" ">>))
         IN printed(evaluate(Head(arguments), s))

print_name == <<"p", "r", "i", "n", "t">>
len_name == <<"l", "e", "n">>

\* a variant of is_intrinsic that gives way to a binding of the name
is_intrinsic_unless_defined(callee, name, s) ==
    /\ callee.expr = "Variable"
    /\ callee.name = name
    /\ ~get(s.frames, s.environment, name).some

\* if let Expr::Variable(name) = callee { match name.as_str() { .. } }:
\* decided by the spelling of the callee alone, s is not consulted
is_intrinsic(callee, name, s) ==
    /\ callee.expr = "Variable"
    /\ callee.name = name

evaluate_Call(e, s) ==
    LET printed(p) == IF ~Running(p) THEN Val(Nothing, p)
                      ELSE Val(Number(0), Write(p, <<"\n">>))
        length(a) ==
            IF ~Running(a.s) THEN a
            ELSE CASE a.value.tag = "String" ->
                         Val(Number(Len(a.value.s)), a.s)
                   [] a.value.tag = "Array" ->
                         Val(Number(Len(a.value.arr)), a.s)
                   [] a.value.tag = "Map" ->
                         Val(Number(Cardinality(DOMAIN a.value.map)), a.s)
                   [] OTHER ->
                         Abort(a.s, "len() expects a string, array, or map")
    IN IF is_intrinsic(e.callee, print_name, s)
       THEN printed(print_arguments(e.arguments, s))
       ELSE IF is_intrinsic(e.callee, len_name, s)
       THEN IF Len(e.arguments) # 1
            THEN Abort(s, "len() expects exactly 1 argument")
            ELSE length(evaluate(e.arguments[1], s))
       ELSE call_user_function(e.callee, e.arguments, s)

evaluate(e, s) ==
    IF ~Running(s) THEN Val(Nothing, s)
    ELSE CASE e.expr = "Number"      -> Val(Number(e.value), s)
           [] e.expr = "String"      -> Val(String(e.value), s)
           [] e.expr = "Boolean"     -> Val(Boolean(e.value), s)
           [] e.expr = "Variable"    -> evaluate_Variable(e, s)
           [] e.expr = "Assign"      -> evaluate_Assign(e, s)
           [] e.expr = "Binary"      -> evaluate_Binary(e, s)
           [] e.expr = "Logical"     -> evaluate_Logical(e, s)
           [] e.expr = "Unary"       -> evaluate_Unary(e, s)
           [] e.expr = "Call"        -> evaluate_Call(e, s)
           [] e.expr = "Array"       -> evaluate_Array(e, s)
           [] e.expr = "Map"         -> evaluate_Map(e, s)
           [] e.expr = "Index"       -> evaluate_Index(e, s)
           [] e.expr = "IndexAssign" -> evaluate_IndexAssign(e, s)
           [] e.expr = "Dot"         -> evaluate_Dot(e, s)
           [] e.expr = "DotAssign"   -> evaluate_DotAssign(e, s)

execute_Expr(stmt, s) ==
    Done(evaluate(stmt.expr, s).s, OkResult)

execute_Let(stmt, s) ==
    LET bind(r) ==
            IF ~Running(r.s) THEN Done(r.s, OkResult)
            ELSE Done([r.s EXCEPT !.frames =
                           define(@, r.s.environment, stmt.name, r.value)],
                      OkResult)
    IN bind(IF stmt.initializer.some
            THEN evaluate(stmt.initializer.value, s)
            ELSE Val(Number(0), s))

execute_Print(stmt, s) ==
    LET printed(r) ==
            IF ~Running(r.s) THEN Done(r.s, OkResult)
            ELSE Done(Write(r.s, value_to_string(r.value) \o <<"\n">>),
                      OkResult)
    IN printed(evaluate(stmt.expr, s))

\* a variant of run_block that executes the statements after an Err too
run_block_runs_to_the_end(statements, s) ==
    LET RECURSIVE rest(_, _)
        rest(remaining, r) ==
            IF remaining = <<>> \/ ~Running(r.s) THEN r
            ELSE rest(Tail(remaining),
                      IF r.result.err
                      THEN Done(execute(Head(remaining), r.s).s, r.result)
                      ELSE execute(Head(remaining), r.s))
    IN rest(statements, Done(s, OkResult))

\* for stmt in statements: stop at the first Err
RECURSIVE run_block(_, _)
run_block(statements, s) ==
    IF statements = <<>> THEN Done(s, OkResult)
    ELSE LET next(r) == IF ~Running(r.s) \/ r.result.err THEN r
                        ELSE run_block(Tail(statements), r.s)
         IN next(execute(Head(statements), s))

\* a variant of execute_Block that restores the environment only on Ok
execute_Block_return_skips_restore(stmt, s) ==
    LET new_env == Len(s.frames) + 1
        previous_env == s.environment
        left(r, s2) ==
            Done(Log(s2, [ev |-> "exit", construct |-> "block",
                          before |-> s.environment, inside |-> new_env,
                          after |-> s2.environment, err |-> r.result.err]),
                 r.result)
        ran(r) == IF ~Running(r.s) THEN r
                  ELSE left(r, IF r.result.err THEN r.s
                               ELSE [r.s EXCEPT !.environment = previous_env])
    IN ran(run_block(stmt.statements,
                     [s EXCEPT !.frames = new_enclosed(@, s.environment),
                               !.environment = new_env]))

execute_Block(stmt, s) ==
    LET new_env == Len(s.frames) + 1
        previous_env == s.environment
        left(r, s2) ==
            Done(Log(s2, [ev |-> "exit", construct |-> "block",
                          before |-> s.environment, inside |-> new_env,
                          after |-> s2.environment, err |-> r.result.err]),
                 r.result)
        ran(r) == IF ~Running(r.s) THEN r
                  ELSE left(r, [r.s EXCEPT !.environment = previous_env])
    IN ran(run_block(stmt.statements,
                     [s EXCEPT !.frames = new_enclosed(@, s.environment),
                               !.environment = new_env]))

execute_If(stmt, s) ==
    LET branch(c) ==
            IF ~Running(c.s) THEN Done(c.s, OkResult)
            ELSE IF is_truthy(c.value) THEN execute(stmt.then_branch, c.s)
            ELSE IF stmt.else_branch.some
            THEN execute(stmt.else_branch.value, c.s)
            ELSE Done(c.s, OkResult)
    IN branch(evaluate(stmt.condition, s))

RECURSIVE execute_While(_, _)
execute_While(stmt, s) ==
    LET next(r) == IF ~Running(r.s) \/ r.result.err THEN r
                   ELSE execute_While(stmt, r.s)
        test(c) ==
            IF ~Running(c.s) THEN Done(c.s, OkResult)
            ELSE IF ~is_truthy(c.value) THEN Done(c.s, OkResult)
            ELSE IF c.s.fuel = 0 THEN Done(Exhausted(c.s), OkResult)
            ELSE next(execute(stmt.body, [c.s EXCEPT !.fuel = @ - 1]))
    IN test(evaluate(stmt.condition, s))

\* a variant of for_loop without a frame of its own: the loop variable is
\* defined, and the body executed, in the enclosing scope
RECURSIVE for_loop_in_enclosing_scope(_, _, _, _)
for_loop_in_enclosing_scope(stmt, elements, k, s) ==
    IF k > Len(elements) THEN Done(s, OkResult)
    ELSE LET previous_env == s.environment
             left(r, s3) ==
                 IF r.result.err THEN Done(s3, r.result)
                 ELSE for_loop_in_enclosing_scope(stmt, elements, k + 1, s3)
             restored(r, s2) ==
                 left(r, Log(s2, [ev |-> "exit", construct |-> "for",
                                  before |-> previous_env,
                                  inside |-> previous_env,
                                  after |-> s2.environment,
                                  err |-> r.result.err]))
             ran(r) == IF ~Running(r.s) THEN r ELSE restored(r, r.s)
             entered == define(s.frames, s.environment, stmt.variable,
                               elements[k])
         IN ran(execute(stmt.body,
                    Log([s EXCEPT !.frames = entered],
                        [ev |-> "iteration", env |-> previous_env,
                         enclosing |-> previous_env,
                         parent |-> entered[previous_env].enclosing,
                         visible |-> DOMAIN entered[previous_env].values,
                         index |-> k, element |-> elements[k]])))

\* a variant of for_loop that reads the iterated variable again before each
\* iteration
RECURSIVE for_loop_rereads(_, _, _, _)
for_loop_rereads(stmt, elements, k, s) ==
    LET turn(current) ==
            IF k > Len(current) THEN Done(s, OkResult)
            ELSE LET loop_env == Len(s.frames) + 1
                     previous_env == s.environment
                     left(r, s3) ==
                         IF r.result.err THEN Done(s3, r.result)
                         ELSE for_loop_rereads(stmt, current, k + 1, s3)
                     restored(r, s2) ==
                         left(r, Log(s2, [ev |-> "exit", construct |-> "for",
                                          before |-> s.environment,
                                          inside |-> loop_env,
                                          after |-> s2.environment,
                                          err |-> r.result.err]))
                     ran(r) == IF ~Running(r.s) THEN r
                               ELSE restored(r, [r.s EXCEPT
                                                    !.environment =
                                                        previous_env])
                     entered == define(new_enclosed(s.frames, s.environment),
                                       loop_env, stmt.variable, current[k])
                 IN ran(execute(stmt.body,
                            Log([s EXCEPT !.frames = entered,
                                          !.environment = loop_env],
                                [ev |-> "iteration", env |-> loop_env,
                                 enclosing |-> previous_env,
                                 parent |-> entered[loop_env].enclosing,
                                 visible |-> DOMAIN entered[loop_env].values,
                                 index |-> k, element |-> current[k]])))
        read(v) == IF v.some /\ v.value.tag = "Array" THEN v.value.arr
                   ELSE elements
    IN IF stmt.iterable.expr = "Variable"
       THEN turn(read(get(s.frames, s.environment, stmt.iterable.name)))
       ELSE turn(elements)

\* for element in arr { .. }, from element k on (both arms of Stmt::For)
RECURSIVE for_loop(_, _, _, _)
for_loop(stmt, elements, k, s) ==
    IF k > Len(elements) THEN Done(s, OkResult)
    ELSE LET loop_env == Len(s.frames) + 1
             previous_env == s.environment
             left(r, s3) == IF r.result.err THEN Done(s3, r.result)
                            ELSE for_loop(stmt, elements, k + 1, s3)
             restored(r, s2) ==
                 left(r, Log(s2, [ev |-> "exit", construct |-> "for",
                                  before |-> s.environment,
                                  inside |-> loop_env,
                                  after |-> s2.environment,
                                  err |-> r.result.err]))
             ran(r) == IF ~Running(r.s) THEN r
                       ELSE restored(r, [r.s EXCEPT
                                            !.environment = previous_env])
             entered == define(new_enclosed(s.frames, s.environment),
                               loop_env, stmt.variable, elements[k])
         IN ran(execute(stmt.body,
                    Log([s EXCEPT !.frames = entered,
                                  !.environment = loop_env],
                        [ev |-> "iteration", env |-> loop_env,
                         enclosing |-> previous_env,
                         parent |-> entered[loop_env].enclosing,
                         visible |-> DOMAIN entered[loop_env].values,
                         index |-> k, element |-> elements[k]])))

\* a variant of execute_For that starts at the second element of an Array
execute_For_from_second(stmt, s) ==
    LET iterable(it) ==
            IF ~Running(it.s) THEN Done(it.s, OkResult)
            ELSE IF it.value.tag = "Array"
            THEN for_loop(stmt, it.value.arr, 2, it.s)
            ELSE Done(Abort(it.s, "Can only iterate over arrays or strings").s,
                      OkResult)
    IN iterable(evaluate(stmt.iterable, s))

execute_For(stmt, s) ==
    LET iterable(it) ==
            IF ~Running(it.s) THEN Done(it.s, OkResult)
            ELSE IF it.value.tag = "Array"
            THEN for_loop(stmt, it.value.arr, 1, it.s)
            ELSE IF it.value.tag = "String"
            THEN for_loop(stmt, [k \in 1..Len(it.value.s) |->
                                    String(<<it.value.s[k]>>)], 1, it.s)
            ELSE Done(Abort(it.s, "Can only iterate over arrays or strings").s,
                      OkResult)
    IN iterable(evaluate(stmt.iterable, s))

\* a variant of execute_Function whose closure is a copy of the bindings
\* visible at the declaration
execute_Function_captures_values(stmt, s) ==
    LET snapshot == Len(s.frames) + 1
        chain == Chain(s.frames, s.environment)
        visible == UNION {DOMAIN s.frames[chain[k]].values :
                              k \in 1..Len(chain)}
        copy == [name \in visible |->
                    get(s.frames, s.environment, name).value]
    IN Done([s EXCEPT !.frames =
                 define(Append(@, [values |-> copy, enclosing |-> 0]),
                        s.environment, stmt.name,
                        Function(stmt.name, stmt.params, stmt.body,
                                 snapshot))],
            OkResult)

execute_Function(stmt, s) ==
    Done([s EXCEPT !.frames =
              define(@, s.environment, stmt.name,
                     Function(stmt.name, stmt.params, stmt.body,
                              s.environment))],
         OkResult)

execute_Return(stmt, s) ==
    LET returned(r) ==
            IF ~Running(r.s) THEN Done(r.s, OkResult)
            ELSE Done(Log(r.s, [ev |-> "return", call |-> r.s.call,
                                bare |-> ~stmt.value.some,
                                value |-> r.value]),
                      Err(r.value))
    IN returned(IF stmt.value.some THEN evaluate(stmt.value.value, s)
                ELSE Val(Number(0), s))

execute(stmt, s) ==
    IF ~Running(s) THEN Done(s, OkResult)
    ELSE LET t == Log(s, [ev |-> "stmt", kind |-> stmt.stmt,
                          call |-> s.call, env |-> s.environment])
         IN CASE stmt.stmt = "Expr"     -> execute_Expr(stmt, t)
              [] stmt.stmt = "Let"      -> execute_Let(stmt, t)
              [] stmt.stmt = "Print"    -> execute_Print(stmt, t)
              [] stmt.stmt = "Block"    -> execute_Block(stmt, t)
              [] stmt.stmt = "If"       -> execute_If(stmt, t)
              [] stmt.stmt = "While"    -> execute_While(stmt, t)
              [] stmt.stmt = "For"      -> execute_For(stmt, t)
              [] stmt.stmt = "Function" -> execute_Function(stmt, t)
              [] stmt.stmt = "Return"   -> execute_Return(stmt, t)

----------------------------------------------------------------------------
(* Interpreter::interpret, one top-level statement at a time *)

\* the closure handles held inside a value
RECURSIVE closures_of(_)
closures_of(value) ==
    CASE value.tag = "Function" -> {value.closure}
      [] value.tag = "Array" ->
            UNION {closures_of(value.arr[k]) : k \in 1..Len(value.arr)}
      [] value.tag = "Map" ->
            UNION {closures_of(value.map[k]) : k \in DOMAIN value.map}
      [] OTHER -> {}

\* the handles a frame holds: its enclosing frame and its values' closures
held_by(fr, env) ==
    ({fr[env].enclosing} \ {0})
        \cup UNION {closures_of(fr[env].values[k]) :
                        k \in DOMAIN fr[env].values}

\* the frames reachable through handles from the frames of roots
RECURSIVE reachable(_, _)
reachable(fr, roots) ==
    LET more == roots \cup UNION {held_by(fr, env) : env \in roots}
    IN IF more = roots THEN roots ELSE reachable(fr, more)

\* Dropping the last Rc handle of a frame frees it: the frames allocated
\* after the last one that the global frame still reaches are gone when the
\* statement is over.
release(fr, env) ==
    LET live == reachable(fr, {1, env})
    IN SubSeq(fr, 1, CHOOSE k \in live : \A j \in live : j <= k)

\* {:?} of a Value.  The derived Debug of a Function prints its closure, the
\* Environment behind the Rc<RefCell<..>>, with every value bound there and
\* its enclosing frames: it does not return when a frame reachable from the
\* value holds a handle that leads back to it.
debug_overflows(value, fr) ==
    \E env \in reachable(fr, closures_of(value)) :
        env \in reachable(fr, held_by(fr, env))

RECURSIVE debug(_)
debug(value) ==
    CASE value.tag = "Number" ->
            <<"N", "u", "m", "b", "e", "r", "(">> \o to_string(value.n)
                \o <<")">>
      [] value.tag = "String" ->
            <<"S", "t", "r", "i", "n", "g", "(", "\"">> \o value.s
                \o <<"\"", ")">>
      [] value.tag = "Boolean" ->
            <<"B", "o", "o", "l", "e", "a", "n", "(">>
                \o value_to_string(value) \o <<")">>
      [] value.tag = "Array" ->
            <<"A", "r", "r", "a", "y", "(", "[">>
                \o join([k \in 1..Len(value.arr) |-> debug(value.arr[k])],
                        <<",", " ">>)
                \o <<"]", ")">>
      [] value.tag = "Map" ->
            LET keys == iter_keys(DOMAIN value.map)
            IN <<"M", "a", "p", "(", "{">>
                \o join([k \in 1..Len(keys) |->
                            <<"\"">> \o keys[k] \o <<"\"", ":", " ">>
                                \o debug(value.map[keys[k]])],
                        <<",", " ">>)
                \o <<"}", ")">>
      [] OTHER -> <<"F", "u", "n", "c", "t", "i", "o", "n">>

\* "Warning: Top-level return value ignored: "
Warning ==
    <<"W", "a", "r", "n", "i", "n", "g", ":", " ", "T", "o", "p", "-", "l",
      "e", "v", "e", "l", " ", "r", "e", "t", "u", "r", "n", " ", "v", "a",
      "l", "u", "e", " ", "i", "g", "n", "o", "r", "e", "d", ":", " ">>

\* the body of the loop of interpret: execute, report an unused return
interpret_statement(stmt, s) ==
    LET report(r) ==
            IF ~Running(r.s) \/ ~r.result.err THEN r
            ELSE IF debug_overflows(r.result.value, r.s.frames)
            THEN Done(Abort(r.s, "stack overflow").s, r.result)
            ELSE Done(Write(r.s, Warning \o debug(r.result.value)
                                     \o <<"\n">>),
                      r.result)
    IN report(execute(stmt, s))

Init ==
    /\ frames = <<Environment_new>>
    /\ environment = 1
    /\ saved = <<>>
    /\ ret = [op |-> "new"]
    /\ output = <<>>
    /\ status = "ok"
    /\ executed = 0
    /\ trace = <<>>
    /\ scanner = None
    /\ parser = None

Interpret(stmt) ==
    LET finished(r) ==
            /\ frames' = IF Running(r.s)
                         THEN release(r.s.frames, r.s.environment)
                         ELSE r.s.frames
            /\ environment' = r.s.environment
            /\ output' = r.s.output
            /\ status' = r.s.status
            /\ trace' = r.s.trace
            /\ ret' = [op |-> "execute", stmt |-> stmt, result |-> r.result,
                       message |-> r.s.message]
    IN /\ status = "ok"
       /\ executed < MaxProgLen
       /\ finished(interpret_statement(stmt,
              [frames |-> frames, environment |-> environment,
               output |-> <<>>, status |-> "ok", message |-> "",
               fuel |-> MaxSteps, call |-> 0, trace |-> <<>>]))
       /\ executed' = executed + 1
       /\ UNCHANGED <<saved, scanner, parser>>

----------------------------------------------------------------------------
(* Scripts about scopes: let, assignment, blocks, loops and calls *)

ScopeScripts ==
    [ \* let x = 1;   let x;   x = 2;   y = 3;   print x;
      let_x   |-> SLet(Id("x"), Some(ENumber(1))),
      let_x_0 |-> SLet(Id("x"), None),
      set_x   |-> SExpr(EAssign(Id("x"), ENumber(2))),
      set_y   |-> SExpr(EAssign(Id("y"), ENumber(3))),
      print_x |-> SPrint(EVariable(Id("x"))),
      \* { let x = 5; }
      block_let |-> SBlock(<<SLet(Id("x"), Some(ENumber(5)))>>),
      \* { let x = 5; x = 6; }
      block_let_set |->
          SBlock(<<SLet(Id("x"), Some(ENumber(5))),
                   SExpr(EAssign(Id("x"), ENumber(6)))>>),
      \* { x = 7; { let x = 8; x = 9; } }
      block_nested |->
          SBlock(<<SExpr(EAssign(Id("x"), ENumber(7))),
                   SBlock(<<SLet(Id("x"), Some(ENumber(8))),
                            SExpr(EAssign(Id("x"), ENumber(9)))>>)>>),
      \* { let y = x; }
      block_let_y |-> SBlock(<<SLet(Id("y"), Some(EVariable(Id("x"))))>>),
      \* { return x; }
      block_return |-> SBlock(<<SReturn(Some(EVariable(Id("x"))))>>),
      \* for (e in [1, 2]) { let x = e; }
      for_let |->
          SFor(Id("e"), EArray(<<ENumber(1), ENumber(2)>>),
               SBlock(<<SLet(Id("x"), Some(EVariable(Id("e"))))>>)),
      \* for (e in [1, 2]) { x = e; }
      for_set |->
          SFor(Id("e"), EArray(<<ENumber(1), ENumber(2)>>),
               SBlock(<<SExpr(EAssign(Id("x"), EVariable(Id("e"))))>>)),
      \* fn f() { { let x = 4; return x; } }
      fn_f |->
          SFunction(Id("f"), <<>>,
              <<SBlock(<<SLet(Id("x"), Some(ENumber(4))),
                         SReturn(Some(EVariable(Id("x"))))>>)>>),
      \* fn g(p) { for (e in [1, 2]) { if (e == p) { return e; } } return 0; }
      fn_g |->
          SFunction(Id("g"), <<Id("p")>>,
              <<SFor(Id("e"), EArray(<<ENumber(1), ENumber(2)>>),
                     SBlock(<<SIf(EBinary(EVariable(Id("e")), "EqualEqual",
                                          EVariable(Id("p"))),
                                  SBlock(<<SReturn(Some(EVariable(Id("e"))))>>),
                                  None)>>)),
                SReturn(Some(ENumber(0)))>>),
      \* x = f();   x = g(2);   x = g(5);
      call_f       |-> SExpr(EAssign(Id("x"), ECall(EVariable(Id("f")), <<>>))),
      call_g_found |->
          SExpr(EAssign(Id("x"), ECall(EVariable(Id("g")), <<ENumber(2)>>))),
      call_g_none  |->
          SExpr(EAssign(Id("x"), ECall(EVariable(Id("g")), <<ENumber(5)>>))),
      \* let h;   { let x = 3; fn f() { return x; } h = f; }   x = h();
      let_h |-> SLet(Id("h"), None),
      block_closure |->
          SBlock(<<SLet(Id("x"), Some(ENumber(3))),
                   SFunction(Id("f"), <<>>,
                             <<SReturn(Some(EVariable(Id("x"))))>>),
                   SExpr(EAssign(Id("h"), EVariable(Id("f"))))>>),
      call_h |-> SExpr(EAssign(Id("x"), ECall(EVariable(Id("h")), <<>>))) ]

ScopePool == {ScopeScripts[k] : k \in DOMAIN ScopeScripts}

ScopeNext == \E stmt \in ScopePool : Interpret(stmt)

SpecScope == Init /\ [][ScopeNext]_vars

----------------------------------------------------------------------------
(* Scripts about calls and return                                           *)

CallScripts ==
    [ \* fn deep(p) {
      \*     while (p < 3) {
      \*         for e in [1, 2] {
      \*             if (e == p) { { return e; let q = 0; } }
      \*             else { let q = e; }
      \*             let q = 5;
      \*         }
      \*         let q = 6;
      \*     }
      \*     let q = 7;
      \* }
      fn_deep |->
          SFunction(Id("deep"), <<Id("p")>>,
              <<SWhile(EBinary(EVariable(Id("p")), "Less", ENumber(3)),
                  SBlock(<<
                      SFor(Id("e"), EArray(<<ENumber(1), ENumber(2)>>),
                          SBlock(<<
                              SIf(EBinary(EVariable(Id("e")), "EqualEqual",
                                          EVariable(Id("p"))),
                                  SBlock(<<SBlock(<<
                                      SReturn(Some(EVariable(Id("e")))),
                                      SLet(Id("q"), Some(ENumber(0)))>>)>>),
                                  Some(SBlock(<<
                                      SLet(Id("q"),
                                           Some(EVariable(Id("e"))))>>))),
                              SLet(Id("q"), Some(ENumber(5)))>>)),
                      SLet(Id("q"), Some(ENumber(6)))>>)),
                SLet(Id("q"), Some(ENumber(7)))>>),
      \* fn outer(p) { let a = deep(p); return a + 10; }
      fn_outer |->
          SFunction(Id("outer"), <<Id("p")>>,
              <<SLet(Id("a"), Some(ECall(EVariable(Id("deep")),
                                         <<EVariable(Id("p"))>>))),
                SReturn(Some(EBinary(EVariable(Id("a")), "Add",
                                     ENumber(10))))>>),
      \* fn quiet() { deep(1); }
      fn_quiet |->
          SFunction(Id("quiet"), <<>>,
              <<SExpr(ECall(EVariable(Id("deep")), <<ENumber(1)>>))>>),
      \* fn bare() { return; let q = 1; }
      fn_bare |->
          SFunction(Id("bare"), <<>>,
              <<SReturn(None), SLet(Id("q"), Some(ENumber(1)))>>),
      \* fn pair(p, q) { return p - q; }
      fn_pair |->
          SFunction(Id("pair"), <<Id("p"), Id("q")>>,
              <<SReturn(Some(EBinary(EVariable(Id("p")), "Subtract",
                                     EVariable(Id("q")))))>>),
      \* fn peek() { return z; }
      fn_peek |->
          SFunction(Id("peek"), <<>>, <<SReturn(Some(EVariable(Id("z"))))>>),
      \* let x = deep(1);   let x = deep(2);   let x = deep(3);
      let_deep_1 |->
          SLet(Id("x"), Some(ECall(EVariable(Id("deep")), <<ENumber(1)>>))),
      let_deep_2 |->
          SLet(Id("x"), Some(ECall(EVariable(Id("deep")), <<ENumber(2)>>))),
      let_deep_3 |->
          SLet(Id("x"), Some(ECall(EVariable(Id("deep")), <<ENumber(3)>>))),
      \* let x = outer(2);   let x = quiet();   let x = bare();
      let_outer |->
          SLet(Id("x"), Some(ECall(EVariable(Id("outer")), <<ENumber(2)>>))),
      let_quiet |-> SLet(Id("x"), Some(ECall(EVariable(Id("quiet")), <<>>))),
      let_bare  |-> SLet(Id("x"), Some(ECall(EVariable(Id("bare")), <<>>))),
      \* let z = 3;   let x = peek();
      let_z    |-> SLet(Id("z"), Some(ENumber(3))),
      let_peek |-> SLet(Id("x"), Some(ECall(EVariable(Id("peek")), <<>>))),
      \* let x = [deep(2), quiet(), bare()];
      let_all |->
          SLet(Id("x"),
               Some(EArray(<<ECall(EVariable(Id("deep")), <<ENumber(2)>>),
                             ECall(EVariable(Id("quiet")), <<>>),
                             ECall(EVariable(Id("bare")), <<>>)>>))),
      \* { let z = 1; print pair(z = z + 1, z * 2); print peek(); }
      block_caller |->
          SBlock(<<SLet(Id("z"), Some(ENumber(1))),
                   SPrint(ECall(EVariable(Id("pair")),
                                <<EAssign(Id("z"),
                                          EBinary(EVariable(Id("z")), "Add",
                                                  ENumber(1))),
                                  EBinary(EVariable(Id("z")), "Multiply",
                                          ENumber(2))>>)),
                   SPrint(ECall(EVariable(Id("peek")), <<>>))>>) ]

CallPool == {CallScripts[k] : k \in DOMAIN CallScripts}

CallNext == \E stmt \in CallPool : Interpret(stmt)

SpecCall == Init /\ [][CallNext]_vars

----------------------------------------------------------------------------
(* Scripts about Arrays, Maps and closures over them *)

DataScripts ==
    [ \* let m = {"a": 1};   let a = [[1, 2], [3]];   let c = {"e": [{"r": 1}]};
      let_m |-> SLet(Id("m"), Some(EMap(<<<<Id("a"), ENumber(1)>>>>))),
      let_a |->
          SLet(Id("a"),
               Some(EArray(<<EArray(<<ENumber(1), ENumber(2)>>),
                             EArray(<<ENumber(3)>>)>>))),
      let_c |->
          SLet(Id("c"),
               Some(EMap(<<<<Id("e"),
                             EArray(<<EMap(<<<<Id("r"),
                                               ENumber(1)>>>>)>>)>>>>))),
      \* let n = m;
      let_n |-> SLet(Id("n"), Some(EVariable(Id("m")))),
      \* { let n = 0; n = m; n["a"] = 5; n.b = 6; print m["a"]; print m.b; }
      block_copy |->
          SBlock(<<SLet(Id("n"), Some(ENumber(0))),
                   SExpr(EAssign(Id("n"), EVariable(Id("m")))),
                   SExpr(EIndexAssign(EVariable(Id("n")), EString(Id("a")),
                                      ENumber(5))),
                   SExpr(EDotAssign(EVariable(Id("n")), Id("b"), ENumber(6))),
                   SPrint(EIndex(EVariable(Id("m")), EString(Id("a")))),
                   SPrint(EDot(EVariable(Id("m")), Id("b")))>>),
      \* fn put(p) { p["a"] = 5; return p["a"]; }   let r = put(m);
      fn_put |->
          SFunction(Id("put"), <<Id("p")>>,
              <<SExpr(EIndexAssign(EVariable(Id("p")), EString(Id("a")),
                                   ENumber(5))),
                SReturn(Some(EIndex(EVariable(Id("p")),
                                    EString(Id("a")))))>>),
      call_put |->
          SLet(Id("r"), Some(ECall(EVariable(Id("put")),
                                   <<EVariable(Id("m"))>>))),
      \* let r = (n["a"] = 5);   let r = (n.b = 6);
      write_n_index |->
          SLet(Id("r"), Some(EIndexAssign(EVariable(Id("n")),
                                          EString(Id("a")), ENumber(5)))),
      write_n_dot |->
          SLet(Id("r"), Some(EDotAssign(EVariable(Id("n")), Id("b"),
                                        ENumber(6)))),
      \* let r = (m["a"] = 9);   let r = (m.b = 7);   let r = (a[1] = 8);
      write_m_index |->
          SLet(Id("r"), Some(EIndexAssign(EVariable(Id("m")),
                                          EString(Id("a")), ENumber(9)))),
      write_m_dot |->
          SLet(Id("r"), Some(EDotAssign(EVariable(Id("m")), Id("b"),
                                        ENumber(7)))),
      write_a_index |->
          SLet(Id("r"), Some(EIndexAssign(EVariable(Id("a")), ENumber(1),
                                          ENumber(8)))),
      \* let r = (a[0][1] = 9);   let r = (c.e[0].r = 9);
      write_a_chain |->
          SLet(Id("r"),
               Some(EIndexAssign(EIndex(EVariable(Id("a")), ENumber(0)),
                                 ENumber(1), ENumber(9)))),
      write_c_chain |->
          SLet(Id("r"),
               Some(EDotAssign(EIndex(EDot(EVariable(Id("c")), Id("e")),
                                      ENumber(0)),
                               Id("r"), ENumber(9)))),
      \* fn get() { return m["a"]; }   let x = get();
      fn_get |->
          SFunction(Id("get"), <<>>,
              <<SReturn(Some(EIndex(EVariable(Id("m")),
                                    EString(Id("a")))))>>),
      call_get |-> SLet(Id("x"), Some(ECall(EVariable(Id("get")), <<>>))),
      \* { let m = {"a": 1}; fn get() { return m["a"]; } m["a"] = 9;
      \*   print get(); }
      block_capture_write |->
          SBlock(<<SLet(Id("m"), Some(EMap(<<<<Id("a"), ENumber(1)>>>>))),
                   SFunction(Id("get"), <<>>,
                       <<SReturn(Some(EIndex(EVariable(Id("m")),
                                             EString(Id("a")))))>>),
                   SExpr(EIndexAssign(EVariable(Id("m")), EString(Id("a")),
                                      ENumber(9))),
                   SPrint(ECall(EVariable(Id("get")), <<>>))>>),
      \* { let y = 1; fn val() { return y; } y = 2; print val(); }
      block_capture_assign |->
          SBlock(<<SLet(Id("y"), Some(ENumber(1))),
                   SFunction(Id("val"), <<>>,
                             <<SReturn(Some(EVariable(Id("y"))))>>),
                   SExpr(EAssign(Id("y"), ENumber(2))),
                   SPrint(ECall(EVariable(Id("val")), <<>>))>>),
      \* m["a"] = (m["b"] = 2);   m.a = (m.b = 2);   a[0] = (a[1] = 5);
      snap_index |->
          SExpr(EIndexAssign(EVariable(Id("m")), EString(Id("a")),
                             EIndexAssign(EVariable(Id("m")),
                                          EString(Id("b")), ENumber(2)))),
      snap_dot |->
          SExpr(EDotAssign(EVariable(Id("m")), Id("a"),
                           EDotAssign(EVariable(Id("m")), Id("b"),
                                      ENumber(2)))),
      snap_array |->
          SExpr(EIndexAssign(EVariable(Id("a")), ENumber(0),
                             EIndexAssign(EVariable(Id("a")), ENumber(1),
                                          ENumber(5)))),
      \* m[(m.b = "a")] = 3;
      snap_key |->
          SExpr(EIndexAssign(EVariable(Id("m")),
                             EDotAssign(EVariable(Id("m")), Id("b"),
                                        EString(Id("a"))),
                             ENumber(3))),
      \* fn reset() { m = {"z": 0}; return 4; }
      \* m["a"] = reset();   m.a = reset();
      fn_reset |->
          SFunction(Id("reset"), <<>>,
              <<SExpr(EAssign(Id("m"),
                              EMap(<<<<Id("z"), ENumber(0)>>>>))),
                SReturn(Some(ENumber(4)))>>),
      snap_call |->
          SExpr(EIndexAssign(EVariable(Id("m")), EString(Id("a")),
                             ECall(EVariable(Id("reset")), <<>>))),
      snap_call_dot |->
          SExpr(EDotAssign(EVariable(Id("m")), Id("a"),
                           ECall(EVariable(Id("reset")), <<>>))) ]

DataPool == {DataScripts[k] : k \in DOMAIN DataScripts}

DataNext == \E stmt \in DataPool : Interpret(stmt)

SpecData == Init /\ [][DataNext]_vars

----------------------------------------------------------------------------
(* Scripts about closures, for loops, and/or and a return at the top level *)

FlowScripts ==
    [ \* let h;   { let x = 3; fn f() { x = x + 1; return x; } h = f; }
      let_h |-> SLet(Id("h"), None),
      block_counter |->
          SBlock(<<SLet(Id("x"), Some(ENumber(3))),
                   SFunction(Id("f"), <<>>,
                       <<SExpr(EAssign(Id("x"),
                                       EBinary(EVariable(Id("x")), "Add",
                                               ENumber(1)))),
                         SReturn(Some(EVariable(Id("x"))))>>),
                   SExpr(EAssign(Id("h"), EVariable(Id("f"))))>>),
      \* let r = h();
      call_h |-> SLet(Id("r"), Some(ECall(EVariable(Id("h")), <<>>))),
      \* let a = [4, 5];   let a = [];   for (e in a) { print e; }
      let_a       |-> SLet(Id("a"), Some(EArray(<<ENumber(4), ENumber(5)>>))),
      let_a_empty |-> SLet(Id("a"), Some(EArray(<<>>))),
      for_a |->
          SFor(Id("e"), EVariable(Id("a")),
               SBlock(<<SPrint(EVariable(Id("e")))>>)),
      \* { let t = 0; for (e in [1, 2, 3]) { t = t * 10 + e; } print t; }
      for_digits |->
          SBlock(<<SLet(Id("t"), Some(ENumber(0))),
                   SFor(Id("e"),
                        EArray(<<ENumber(1), ENumber(2), ENumber(3)>>),
                        SBlock(<<SExpr(EAssign(Id("t"),
                                    EBinary(EBinary(EVariable(Id("t")),
                                                    "Multiply", ENumber(10)),
                                            "Add", EVariable(Id("e")))))>>)),
                   SPrint(EVariable(Id("t")))>>),
      \* { for (e in []) { print e; } print 7; }
      for_empty |->
          SBlock(<<SFor(Id("e"), EArray(<<>>),
                        SBlock(<<SPrint(EVariable(Id("e")))>>)),
                   SPrint(ENumber(7))>>),
      \* { for (e in [1, 2]) { if (e == 2) { print q; } let q = e; } }
      for_fresh |->
          SBlock(<<SFor(Id("e"), EArray(<<ENumber(1), ENumber(2)>>),
                        SBlock(<<SIf(EBinary(EVariable(Id("e")), "EqualEqual",
                                             ENumber(2)),
                                     SBlock(<<SPrint(EVariable(Id("q")))>>),
                                     None),
                                 SLet(Id("q"),
                                      Some(EVariable(Id("e"))))>>))>>),
      \* { for (e in [1, 2]) { } print e; }
      for_var_after |->
          SBlock(<<SFor(Id("e"), EArray(<<ENumber(1), ENumber(2)>>),
                        SBlock(<<>>)),
                   SPrint(EVariable(Id("e")))>>),
      \* { let t = 0; let q = 0;
      \*   for (e in [1, 2]) { let t = e; q = q + t; }
      \*   print t; print q; }
      for_shadow |->
          SBlock(<<SLet(Id("t"), Some(ENumber(0))),
                   SLet(Id("q"), Some(ENumber(0))),
                   SFor(Id("e"), EArray(<<ENumber(1), ENumber(2)>>),
                        SBlock(<<SLet(Id("t"), Some(EVariable(Id("e")))),
                                 SExpr(EAssign(Id("q"),
                                    EBinary(EVariable(Id("q")), "Add",
                                            EVariable(Id("t")))))>>)),
                   SPrint(EVariable(Id("t"))),
                   SPrint(EVariable(Id("q")))>>),
      \* let x = 0;   let c = !0;   let c = 0;
      let_x       |-> SLet(Id("x"), Some(ENumber(0))),
      let_c_true  |-> SLet(Id("c"), Some(EUnary("Not", ENumber(0)))),
      let_c_zero  |-> SLet(Id("c"), Some(ENumber(0))),
      \* let r = c and (x = 1);   let r = c or (x = 1);
      and_set |->
          SLet(Id("r"), Some(ELogical(EVariable(Id("c")), "And",
                                      EAssign(Id("x"), ENumber(1))))),
      or_set |->
          SLet(Id("r"), Some(ELogical(EVariable(Id("c")), "Or",
                                      EAssign(Id("x"), ENumber(1))))),
      \* let r = c and 1 / 0;   let r = c or 1 / 0;
      and_div |->
          SLet(Id("r"), Some(ELogical(EVariable(Id("c")), "And",
                                      EBinary(ENumber(1), "Divide",
                                              ENumber(0))))),
      or_div |->
          SLet(Id("r"), Some(ELogical(EVariable(Id("c")), "Or",
                                      EBinary(ENumber(1), "Divide",
                                              ENumber(0))))),
      \* let r = c and h();
      and_call |->
          SLet(Id("r"), Some(ELogical(EVariable(Id("c")), "And",
                                      ECall(EVariable(Id("h")), <<>>)))),
      \* return 7;   return h;
      return_7 |-> SReturn(Some(ENumber(7))),
      return_h |-> SReturn(Some(EVariable(Id("h")))),
      \* { x = 5; return 7; }   { x = 5; return h; }
      block_return_7 |->
          SBlock(<<SExpr(EAssign(Id("x"), ENumber(5))),
                   SReturn(Some(ENumber(7)))>>),
      block_return_h |->
          SBlock(<<SExpr(EAssign(Id("x"), ENumber(5))),
                   SReturn(Some(EVariable(Id("h"))))>>),
      \* for (e in a) { a = []; print e; }
      \* for (e in a) { a[1] = 9; print e; }
      \* for (e in a) { a = [e, e, e]; print e; }
      for_reassign |->
          SFor(Id("e"), EVariable(Id("a")),
               SBlock(<<SExpr(EAssign(Id("a"), EArray(<<>>))),
                        SPrint(EVariable(Id("e")))>>)),
      for_write |->
          SFor(Id("e"), EVariable(Id("a")),
               SBlock(<<SExpr(EIndexAssign(EVariable(Id("a")), ENumber(1),
                                           ENumber(9))),
                        SPrint(EVariable(Id("e")))>>)),
      for_grow |->
          SFor(Id("e"), EVariable(Id("a")),
               SBlock(<<SExpr(EAssign(Id("a"),
                                      EArray(<<EVariable(Id("e")),
                                               EVariable(Id("e")),
                                               EVariable(Id("e"))>>))),
                        SPrint(EVariable(Id("e")))>>)),
      \* fn bump() { x = x + 1; return a; }
      \* for (e in bump()) { a = []; print e; }
      fn_bump |->
          SFunction(Id("bump"), <<>>,
              <<SExpr(EAssign(Id("x"),
                              EBinary(EVariable(Id("x")), "Add",
                                      ENumber(1)))),
                SReturn(Some(EVariable(Id("a"))))>>),
      for_bump |->
          SFor(Id("e"), ECall(EVariable(Id("bump")), <<>>),
               SBlock(<<SExpr(EAssign(Id("a"), EArray(<<>>))),
                        SPrint(EVariable(Id("e")))>>)) ]

FlowPool == {FlowScripts[k] : k \in DOMAIN FlowScripts}

FlowNext == \E stmt \in FlowPool : Interpret(stmt)

SpecFlow == Init /\ [][FlowNext]_vars

----------------------------------------------------------------------------
(* Scripts about runtime errors, call arity, missing keys and intrinsics *)

ErrorScripts ==
    [ \* let x = 7;   let z = 0;   let z = 2;   let a = [1, 2];
      let_x  |-> SLet(Id("x"), Some(ENumber(7))),
      let_z0 |-> SLet(Id("z"), Some(ENumber(0))),
      let_z2 |-> SLet(Id("z"), Some(ENumber(2))),
      let_a  |-> SLet(Id("a"), Some(EArray(<<ENumber(1), ENumber(2)>>))),
      \* let i = -1;   let i = 1;   let i = 2;
      let_i_neg |-> SLet(Id("i"), Some(EUnary("Negate", ENumber(1)))),
      let_i1    |-> SLet(Id("i"), Some(ENumber(1))),
      let_i2    |-> SLet(Id("i"), Some(ENumber(2))),
      \* let a = [];   let i = -2;   let i = -2147483647;
      let_a_none |-> SLet(Id("a"), Some(EArray(<<>>))),
      let_i_neg2 |-> SLet(Id("i"), Some(EUnary("Negate", ENumber(2)))),
      let_i_low  |-> SLet(Id("i"), Some(EUnary("Negate", ENumber(UsizeMax)))),
      \* let r = 6 / z;   let r = a[i];   let r = (a[i] = 9);   let r = x();
      div_z   |-> SLet(Id("r"), Some(EBinary(ENumber(6), "Divide",
                                             EVariable(Id("z"))))),
      read_i  |-> SLet(Id("r"), Some(EIndex(EVariable(Id("a")),
                                            EVariable(Id("i"))))),
      write_i |-> SLet(Id("r"), Some(EIndexAssign(EVariable(Id("a")),
                                                  EVariable(Id("i")),
                                                  ENumber(9)))),
      call_x  |-> SLet(Id("r"), Some(ECall(EVariable(Id("x")), <<>>))),
      \* fn pair(p, q) { x = 9; return p; }
      fn_pair |->
          SFunction(Id("pair"), <<Id("p"), Id("q")>>,
              <<SExpr(EAssign(Id("x"), ENumber(9))),
                SReturn(Some(EVariable(Id("p"))))>>),
      \* let r = pair(x = 5);   let r = pair(x = 5, 2);
      \* let r = pair(x = 5, 2, 3);
      call_pair_1 |->
          SLet(Id("r"), Some(ECall(EVariable(Id("pair")),
                                   <<EAssign(Id("x"), ENumber(5))>>))),
      call_pair_2 |->
          SLet(Id("r"), Some(ECall(EVariable(Id("pair")),
                                   <<EAssign(Id("x"), ENumber(5)),
                                     ENumber(2)>>))),
      call_pair_3 |->
          SLet(Id("r"), Some(ECall(EVariable(Id("pair")),
                                   <<EAssign(Id("x"), ENumber(5)),
                                     ENumber(2), ENumber(3)>>))),
      \* let m = {"b": 4};   let m = {};   m.k = 3;
      let_m       |-> SLet(Id("m"), Some(EMap(<<<<Id("b"), ENumber(4)>>>>))),
      let_m_empty |-> SLet(Id("m"), Some(EMap(<<>>))),
      put_k       |-> SExpr(EDotAssign(EVariable(Id("m")), Id("k"),
                                       ENumber(3))),
      \* let r = m["k"];   let r = m.k;
      read_key   |-> SLet(Id("r"), Some(EIndex(EVariable(Id("m")),
                                               EString(Id("k"))))),
      read_field |-> SLet(Id("r"), Some(EDot(EVariable(Id("m")), Id("k")))),
      \* fn len(p) { x = 9; return 99; }   let len = 5;
      fn_len  |->
          SFunction(len_name, <<Id("p")>>,
              <<SExpr(EAssign(Id("x"), ENumber(9))),
                SReturn(Some(ENumber(99)))>>),
      let_len |-> SLet(len_name, Some(ENumber(5))),
      \* a Function and a Let statement that bind the name print
      fn_print |->
          SFunction(print_name, <<Id("p")>>,
              <<SExpr(EAssign(Id("x"), ENumber(9))),
                SReturn(Some(ENumber(99)))>>),
      let_print |-> SLet(print_name, Some(ENumber(5))),
      \* let r = len([1, 2, 3]);   let r = print(4);
      call_len |->
          SLet(Id("r"), Some(ECall(EVariable(len_name),
                                   <<EArray(<<ENumber(1), ENumber(2),
                                              ENumber(3)>>)>>))),
      call_print |->
          SLet(Id("r"), Some(ECall(EVariable(print_name), <<ENumber(4)>>))) ]

ErrorPool == {ErrorScripts[k] : k \in DOMAIN ErrorScripts}

ErrorNext == \E stmt \in ErrorPool : Interpret(stmt)

SpecError == Init /\ [][ErrorNext]_vars

----------------------------------------------------------------------------
(* == and != on every pair of values of a small universe: the program is   *)
(* fn f() {}  fn g(p) {}  let a = <left>;  let b = <right>;  followed by   *)
(* statements  let r = a == b;  and  let r = a != b;                       *)

\* fn f() {}   fn g(p) {}   declared at the top level
EqFunctions ==
    {Function(Id("f"), <<>>, <<>>, 1), Function(Id("g"), <<Id("p")>>, <<>>, 1)}

EqValues ==
    {Number(0), Number(1),
     String(<<>>), String(<<"a">>), String(<<"1">>),
     Boolean(TRUE), Boolean(FALSE),
     Array(<<>>), Array(<<Number(1)>>), Array(<<Number(1), Number(0)>>),
     Array(<<Array(<<>>)>>), Array(<<Boolean(TRUE)>>),
     Map(EmptyMap), Map(Id("a") :> Number(1)), Map(Id("a") :> Number(0)),
     Map(Id("b") :> Number(1)),
     Map(Id("a") :> Array(<<Number(1)>>))}
        \cup EqFunctions
        \cup {Array(<<fn>>) : fn \in EqFunctions}
        \cup {Map(Id("a") :> fn) : fn \in EqFunctions}

EqInit ==
    /\ \E left \in EqValues, right \in EqValues :
           frames = <<[values |->
                           (Id("a") :> left) @@ (Id("b") :> right)
                               @@ [fn \in {Id("f"), Id("g")} |->
                                      CHOOSE v \in EqFunctions : v.name = fn],
                       enclosing |-> 0]>>
    /\ environment = 1
    /\ saved = <<>>
    /\ ret = [op |-> "new"]
    /\ output = <<>>
    /\ status = "ok"
    /\ executed = 0
    /\ trace = <<>>
    /\ scanner = None
    /\ parser = None

EqScripts ==
    [ \* let r = a == b;   let r = a != b;
      equal |->
          SLet(Id("r"), Some(EBinary(EVariable(Id("a")), "EqualEqual",
                                     EVariable(Id("b"))))),
      not_equal |->
          SLet(Id("r"), Some(EBinary(EVariable(Id("a")), "BangEqual",
                                     EVariable(Id("b"))))) ]

EqPool == {EqScripts[k] : k \in DOMAIN EqScripts}

EqNext == \E stmt \in EqPool : Interpret(stmt)

SpecEq == EqInit /\ [][EqNext]_vars

-----------------------------------------------------------------------------
(* Scanner (scanner.rs) and Token (tokens.rs)                               *)

\* char: the characters are one-character strings
\* '0'..='9' and char::is_ascii_digit
AsciiDigits == {"0", "1", "2", "3", "4", "5", "6", "7", "8", "9"}

\* 'a'..='z' | 'A'..='Z'; char::is_alphanumeric is taken on ASCII text
AsciiLetters ==
    {"a", "b", "c", "d", "e", "f", "g", "h", "i", "j", "k", "l", "m",
     "n", "o", "p", "q", "r", "s", "t", "u", "v", "w", "x", "y", "z",
     "A", "B", "C", "D", "E", "F", "G", "H", "I", "J", "K", "L", "M",
     "N", "O", "P", "Q", "R", "S", "T", "U", "V", "W", "X", "Y", "Z"}

\* a variant of parse_i64 that takes every run of digits
parse_i64_unchecked(digits) == [ok |-> TRUE, value |-> digits]

\* str::parse::<i64> of a run of ASCII digits.  The value is kept as its
\* decimal digits without leading zeros, which 64 bits of it determine;
\* a run that stands for more than i64::MAX = 9223372036854775807 is
\* Err(PosOverflow).
parse_i64(digits) ==
    LET I64Max == <<9, 2, 2, 3, 3, 7, 2, 0, 3, 6, 8, 5, 4, 7, 7, 5, 8, 0, 7>>
        DigitValue(c) ==
            CHOOSE d \in 0..9 :
                <<"0", "1", "2", "3", "4", "5", "6", "7", "8", "9">>[d + 1] = c
        zeros == {k \in 1..Len(digits) :
                      \A j \in 1..k : digits[j] = "0"}
        stripped ==
            IF zeros = {} THEN digits
            ELSE IF Cardinality(zeros) = Len(digits) THEN <<"0">>
            ELSE SubSeq(digits, Cardinality(zeros) + 1, Len(digits))
    IN IF \E value \in {stripped} :
              \/ Len(value) > Len(I64Max)
              \/ /\ Len(value) = Len(I64Max)
                 /\ \E k \in 1..Len(I64Max) :
                        /\ \A j \in 1..(k - 1) :
                               DigitValue(value[j]) = I64Max[j]
                        /\ DigitValue(value[k]) > I64Max[k]
       THEN [ok |-> FALSE]
       ELSE [ok |-> TRUE, value |-> stripped]

\* Token: a variant is a record with its tag, and with its payload where it
\* has one (Number: value, StringLiteral: string, Identifier: name)
Token(tag) == [tag |-> tag]

\* match text.as_str() { "let" => Some(Token::Let), .. } of scan_token
keyword(text) ==
    CASE text = <<"l", "e", "t">> -> Token("Let")
      [] text = <<"p", "r", "i", "n", "t">> -> Token("Print")
      [] text = <<"i", "f">> -> Token("If")
      [] text = <<"e", "l", "s", "e">> -> Token("Else")
      [] text = <<"w", "h", "i", "l", "e">> -> Token("While")
      [] text = <<"t", "r", "u", "e">> -> Token("True")
      [] text = <<"f", "a", "l", "s", "e">> -> Token("False")
      [] text = <<"a", "n", "d">> -> Token("And")
      [] text = <<"o", "r">> -> Token("Or")
      [] text = <<"f", "n">> -> Token("Fn")
      [] text = <<"r", "e", "t", "u", "r", "n">> -> Token("Return")
      [] OTHER -> [tag |-> "Identifier", name |-> text]

\* Scanner::new, with the tokens of scan_tokens and the place of its run
Scanner_new(source) ==
    [source |-> source, start |-> 0, current |-> 0, line |-> 1,
     tokens |-> <<>>, pc |-> "scanning", message |-> ""]

Scanner_is_at_end(sc) == sc.current >= Len(sc.source)

\* '\0' at the end of the source
Scanner_peek(sc) ==
    IF Scanner_is_at_end(sc) THEN "NUL" ELSE sc.source[sc.current + 1]

\* advance: the scanner after the step; the character it returns is
\* sc.source[sc.current + 1]
Scanner_advance(sc) == [sc EXCEPT !.current = @ + 1]

\* while self.peek() != stop && !self.is_at_end() { self.advance(); }
\* of the string arm (stop = '"') and of the comment arm (stop = '\n')
RECURSIVE advance_until(_, _)
advance_until(sc, stop) ==
    IF Scanner_peek(sc) # stop /\ ~Scanner_is_at_end(sc)
    THEN advance_until(Scanner_advance(sc), stop)
    ELSE sc

\* while self.peek().is_ascii_digit() { self.advance(); } and the same for
\* is_alphanumeric() || '_': peek is '\0', in no class, at the end
RECURSIVE advance_while(_, _)
advance_while(sc, class) ==
    IF ~Scanner_is_at_end(sc) /\ Scanner_peek(sc) \in class
    THEN advance_while(Scanner_advance(sc), class)
    ELSE sc

\* scan_token after `let c = self.advance()`: sc is the scanner past c.
\* The answer is the scanner after the arm and the Option<Token>; a panic
\* leaves the scanner at pc = "panic" with its message.
scan_token(c, sc) ==
    LET Scanned(after, token) == [sc |-> after, token |-> token]
        panic(after, message) ==
            [sc |-> [after EXCEPT !.pc = "panic", !.message = message],
             token |-> None]
        \* the characters from start to current
        lexeme(run) == SubSeq(run.source, run.start + 1, run.current)
        \* the string arm: the line feeds of the body are counted in line
        closed(body) ==
            IF Scanner_is_at_end(body)
            THEN panic(body, "Unterminated string")
            ELSE Scanned(
                     [body EXCEPT
                         !.current = @ + 1,
                         !.line = @ + Cardinality(
                                     {k \in (body.start + 2)..body.current :
                                          body.source[k] = "\n"})],
                     Some([tag |-> "StringLiteral",
                           string |-> SubSeq(body.source, body.start + 2,
                                             body.current)]))
        \* '!' | '=' | '>' | '<': a following '=' makes the two-character
        \* operator
        one_or_two(single, double) ==
            IF Scanner_peek(sc) = "="
            THEN Scanned(Scanner_advance(sc), Some(Token(double)))
            ELSE Scanned(sc, Some(Token(single)))
        number(run, parsed) ==
            IF parsed.ok
            THEN Scanned(run, Some([tag |-> "Number", value |-> parsed.value]))
            ELSE panic(run, "called Result::unwrap() on an Err value")
        digits(run) == number(run, parse_i64(lexeme(run)))
        word(run) == Scanned(run, Some(keyword(lexeme(run))))
    IN CASE c = "\"" -> closed(advance_until(sc, "\""))
         [] c = "+" -> Scanned(sc, Some(Token("Plus")))
         [] c = "-" -> Scanned(sc, Some(Token("Minus")))
         [] c = "*" -> Scanned(sc, Some(Token("Star")))
         [] c = "/" ->
                IF Scanner_peek(sc) = "/"
                THEN Scanned(advance_until(sc, "\n"), None)
                ELSE Scanned(sc, Some(Token("Slash")))
         [] c = "(" -> Scanned(sc, Some(Token("LeftParen")))
         [] c = ")" -> Scanned(sc, Some(Token("RightParen")))
         [] c = "{" -> Scanned(sc, Some(Token("LeftBrace")))
         [] c = "}" -> Scanned(sc, Some(Token("RightBrace")))
         [] c = ";" -> Scanned(sc, Some(Token("Semicolon")))
         [] c = "," -> Scanned(sc, Some(Token("Comma")))
         [] c = "!" -> one_or_two("Bang", "BangEqual")
         [] c = "=" -> one_or_two("Equals", "EqualEqual")
         [] c = ">" -> one_or_two("Greater", "GreaterEqual")
         [] c = "<" -> one_or_two("Less", "LessEqual")
         [] c \in {" ", "\t", "\r"} -> Scanned(sc, None)
         [] c = "\n" -> Scanned([sc EXCEPT !.line = @ + 1], None)
         [] c \in AsciiDigits -> digits(advance_while(sc, AsciiDigits))
         [] c \in AsciiLetters \cup {"_"} ->
                word(advance_while(sc, AsciiLetters \cup AsciiDigits
                                           \cup {"_"}))
         [] OTHER -> panic(sc, "Unexpected character")

\* the source texts scanned: every text of up to MaxSourceLen characters of
\* chars, the reserved words and their neighbours, and integer literals
\* around i64::MAX
Sources ==
    LET chars == {"a", "1", "\"", "/", "\n", " ", "=", "#"}
        texts == UNION {[1..n -> chars] : n \in 0..MaxSourceLen}
        max == <<"9", "2", "2", "3", "3", "7", "2", "0", "3", "6", "8", "5",
                 "4", "7", "7", "5", "8", "0", "7">>
        words ==
            {<<"l", "e", "t">>, <<"p", "r", "i", "n", "t">>, <<"i", "f">>,
             <<"e", "l", "s", "e">>, <<"w", "h", "i", "l", "e">>,
             <<"f", "o", "r">>, <<"i", "n">>, <<"f", "n">>,
             <<"r", "e", "t", "u", "r", "n">>, <<"t", "r", "u", "e">>,
             <<"f", "a", "l", "s", "e">>, <<"a", "n", "d">>, <<"o", "r">>,
             <<"l", "e">>, <<"l", "e", "t", "s">>, <<"L", "e", "t">>,
             <<"_", "i", "f">>, <<"i", "n", "1">>, <<"f", "o", "r", "_">>,
             <<"x">>, <<"_">>}
        literals ==
            {max,
             [max EXCEPT ![Len(max)] = "8"],
             <<"0", "0">> \o max,
             <<"1">> \o max,
             <<"x">> \o max \o <<"9">>,
             <<"\"">> \o max \o <<"9", "\"">>,
             <<"/", "/">> \o max \o <<"9">>,
             <<"1", " ">> \o max \o <<"9">>}
    IN texts \cup words \cup literals

\* Scanner::new(source) on one of the source texts
ScanNew ==
    /\ scanner = None
    /\ scanner' \in {Scanner_new(source) : source \in Sources}
    /\ UNCHANGED <<frames, environment, saved, ret, output, status,
                   executed, trace, parser>>

\* one turn of the loop of scan_tokens
ScanToken ==
    /\ scanner # None
    /\ scanner.pc = "scanning"
    /\ ~Scanner_is_at_end(scanner)
    /\ \E r \in {scan_token(scanner.source[scanner.current + 1],
                             Scanner_advance(
                                 [scanner EXCEPT !.start = scanner.current]))} :
           scanner' =
               IF r.sc.pc = "scanning" /\ r.token.some
               THEN [r.sc EXCEPT !.tokens =
                         Append(@, [token |-> r.token.value,
                                    span |-> <<r.sc.start, r.sc.current>>])]
               ELSE r.sc
    /\ UNCHANGED <<frames, environment, saved, ret, output, status,
                   executed, trace, parser>>

\* a variant of ScanEnd that returns the tokens as they are
ScanEnd_without_eof ==
    /\ scanner # None
    /\ scanner.pc = "scanning"
    /\ Scanner_is_at_end(scanner)
    /\ scanner' = [scanner EXCEPT !.pc = "done"]
    /\ UNCHANGED <<frames, environment, saved, ret, output, status,
                   executed, trace, parser>>

\* the end of scan_tokens: push EOF and return the tokens
ScanEnd ==
    /\ scanner # None
    /\ scanner.pc = "scanning"
    /\ Scanner_is_at_end(scanner)
    /\ scanner' =
           [scanner EXCEPT
               !.tokens = Append(@, [token |-> Token("EOF"),
                                     span |-> <<scanner.current,
                                                scanner.current>>]),
               !.pc = "done"]
    /\ UNCHANGED <<frames, environment, saved, ret, output, status,
                   executed, trace, parser>>

ScanNext == ScanNew \/ ScanToken \/ ScanEnd

SpecScan == Init /\ [][ScanNext]_vars

\* scan_tokens is a loop of the one thread there is: it keeps running
SpecScanLive == SpecScan /\ WF_vars(ScanNext)

-----------------------------------------------------------------------------
(* Parser (parser.rs).  The file holds the same parser twice, between the   *)
(* markers of an unresolved merge; the lines named are those of the first   *)
(* copy.  The parser reads the token of a TokenWithSpan only, so tokens     *)
(* holds the Tokens; a Number carries its digits.                           *)

\* Parser::new, with the statements of parse and the place of its run.
\* turns and recoveries are history: the cursor before and after each turn
\* of the loop of parse and of block, and around each call of synchronize.
Parser_new(tokens) ==
    [tokens |-> tokens, current |-> 0, statements |-> <<>>,
     pc |-> "parsing", message |-> "", turns |-> <<>>, recoveries |-> <<>>]

Parser_panic(p, message) ==
    IF p.pc = "panic" THEN p
    ELSE [p EXCEPT !.pc = "panic", !.message = message]

Parser_is_at_end(p) ==
    \/ p.current >= Len(p.tokens)
    \/ p.tokens[p.current + 1].tag = "EOF"

\* check(&Token::X): Identifier matches any Identifier, every other token
\* itself; X here is the tag.  A parser that has panicked runs no further.
check(p, token_type) ==
    /\ p.pc = "parsing"
    /\ ~Parser_is_at_end(p)
    /\ p.tokens[p.current + 1].tag = token_type

\* previous: &self.tokens[self.current - 1]; at current = 0 the
\* subtraction overflows (the caller panics)
previous(p) == p.tokens[p.current]

\* a variant of Parser_advance that steps without asking is_at_end
Parser_advance_unchecked(p) ==
    IF p.pc = "panic" THEN p ELSE [p EXCEPT !.current = @ + 1]

\* advance: the parser after the step; the token it returns is previous
Parser_advance(p) ==
    LET stepped(q) ==
            IF q.current = 0
            THEN Parser_panic(q, "attempt to subtract with overflow")
            ELSE q
    IN IF p.pc = "panic" THEN p
       ELSE IF ~Parser_is_at_end(p)
       THEN stepped([p EXCEPT !.current = @ + 1])
       ELSE stepped(p)

consume(p, token, message) ==
    IF check(p, token) THEN Parser_advance(p) ELSE Parser_panic(p, message)

\* synchronize, called at the cursor `from`
synchronize(p) ==
    LET RECURSIVE loop(_)
        loop(q) ==
            IF q.pc = "panic" \/ Parser_is_at_end(q) THEN q
            ELSE IF previous(q).tag = "Semicolon" THEN q
            ELSE IF q.tokens[q.current + 1].tag
                        \in {"Let", "Print", "If", "While"}
            THEN q
            ELSE loop(Parser_advance(q))
        recovered(q) ==
            IF q.pc = "panic" THEN q
            ELSE [q EXCEPT !.recoveries =
                      Append(@, [from |-> p.current, to |-> q.current])]
    IN recovered(loop(Parser_advance(p)))

\* expression and the functions below it, by level: assignment, the binary
\* levels or, and, equality, comparison, term, factor, then unary, primary.
\* The answer is the parser after the expression and the Expr.
RECURSIVE expression(_, _)
expression(level, p) ==
    LET Parsed(q, value) == [p |-> q, value |-> value]
        \* Rust evaluates `let x = call;` once and then uses x: F is
        \* applied to the value of the one element of call
        Once(call, F(_)) == CHOOSE result \in {F(x) : x \in call} : TRUE
        operators ==
            [or |-> {"Or"}, and |-> {"And"},
             equality |-> {"EqualEqual", "BangEqual"},
             comparison |-> {"Greater", "GreaterEqual", "Less", "LessEqual"},
             term |-> {"Plus", "Minus"}, factor |-> {"Star", "Slash"}]
        below ==
            [or |-> "and", and |-> "equality", equality |-> "comparison",
             comparison |-> "term", term |-> "factor", factor |-> "unary"]
        BinOp(tag) ==
            CASE tag = "Plus" -> "Add" [] tag = "Minus" -> "Subtract"
              [] tag = "Star" -> "Multiply" [] tag = "Slash" -> "Divide"
              [] OTHER -> tag
        \* fn assignment
        assigned(target, r) ==
            IF r.p.pc = "panic" THEN r
            ELSE IF target.expr = "Variable"
            THEN Parsed(r.p, EAssign(target.name, r.value))
            ELSE Parsed(Parser_panic(r.p, "Invalid assignment target"),
                        target)
        assignment(l) ==
            IF check(l.p, "Equals")
            THEN Once({expression("assignment", Parser_advance(l.p))},
                      LAMBDA value : assigned(l.value, value))
            ELSE l
        \* while self.matches(&[..]) { operator; right; expr = .. }
        combined(left, tag, r) ==
            Parsed(r.p,
                   IF level \in {"or", "and"}
                   THEN ELogical(left, tag, r.value)
                   ELSE EBinary(left, BinOp(tag), r.value))
        RECURSIVE binary(_)
        binary(l) ==
            IF \E tag \in operators[level] : check(l.p, tag)
            THEN Once({expression(below[level], Parser_advance(l.p))},
                      LAMBDA right :
                          binary(combined(l.value,
                                          l.p.tokens[l.p.current + 1].tag,
                                          right)))
            ELSE l
        \* fn unary
        negated(tag, r) ==
            Parsed(r.p, EUnary(IF tag = "Bang" THEN "Not" ELSE "Negate",
                               r.value))
        \* fn arguments: loop { args.push(expression); comma or break }
        RECURSIVE arguments(_, _)
        arguments(args, r) ==
            IF check(r.p, "Comma")
            THEN Once({expression("assignment", Parser_advance(r.p))},
                      LAMBDA next : arguments(Append(args, r.value), next))
            ELSE Parsed(r.p, Append(args, r.value))
        called(name, r) ==
            Parsed(consume(r.p, "RightParen", "Expected ')' after arguments"),
                   [expr |-> "Call", callee |-> name, arguments |-> r.value])
        grouped(r) ==
            Parsed(consume(r.p, "RightParen", "Expected ')' after expression"),
                   r.value)
        \* fn primary, from the identifier on
        named(name, q) ==
            IF check(q, "LeftParen")
            THEN IF check(Parser_advance(q), "RightParen")
                 THEN called(name, Parsed(Parser_advance(q), <<>>))
                 ELSE Once({expression("assignment", Parser_advance(q))},
                           LAMBDA first :
                               Once({arguments(<<>>, first)},
                                    LAMBDA args : called(name, args)))
            ELSE Parsed(q, EVariable(name))
        token == p.tokens[p.current + 1]
    IN IF p.pc = "panic" THEN Parsed(p, ENumber(<<>>))
       ELSE IF level = "assignment"
       THEN Once({expression("or", p)}, assignment)
       ELSE IF level \in DOMAIN operators
       THEN Once({expression(below[level], p)}, binary)
       ELSE IF level = "unary"
       THEN IF check(p, "Bang") \/ check(p, "Minus")
            THEN Once({expression("unary", Parser_advance(p))},
                      LAMBDA right : negated(token.tag, right))
            ELSE expression("primary", p)
       ELSE IF check(p, "True")
       THEN Parsed(Parser_advance(p), EBoolean(TRUE))
       ELSE IF check(p, "False")
       THEN Parsed(Parser_advance(p), EBoolean(FALSE))
       ELSE IF p.current >= Len(p.tokens)
       THEN Parsed(Parser_panic(p, "index out of bounds"), ENumber(<<>>))
       ELSE IF token.tag = "Number"
       THEN Parsed(Parser_advance(p), ENumber(token.value))
       ELSE IF token.tag = "Identifier"
       THEN named(token.name, Parser_advance(p))
       ELSE IF check(p, "LeftParen")
       THEN Once({expression("assignment", Parser_advance(p))}, grouped)
       ELSE Parsed(Parser_panic(p, "Expected expression"), ENumber(<<>>))

\* declaration ("declaration") and statement ("statement") with the
\* functions below them.  The answer is the parser after the statement and
\* the Option<Stmt>.
RECURSIVE statement(_, _)
statement(kind, p) ==
    LET Parsed(q, value) == [p |-> q, value |-> value]
        \* Rust evaluates `let x = call;` once and then uses x: F is
        \* applied to the value of the one element of call
        Once(call, F(_)) == CHOOSE result \in {F(x) : x \in call} : TRUE
        \* fn let_declaration, from the name on
        declared(name, r) ==
            Parsed(consume(r.p, "Semicolon",
                           "Expected ';' after variable declaration"),
                   Some(SLet(name, r.value)))
        initialized(r) == Parsed(r.p, Some(r.value))
        let_declaration(name, q) ==
            IF check(q, "Equals")
            THEN Once({expression("assignment", Parser_advance(q))},
                      LAMBDA value : declared(name, initialized(value)))
            ELSE declared(name, Parsed(q, None))
        \* fn declaration, after `let`
        let(q) ==
            IF q.pc = "panic" THEN Parsed(q, None)
            ELSE IF q.current >= Len(q.tokens)
            THEN Parsed(Parser_panic(q, "index out of bounds"), None)
            ELSE IF q.tokens[q.current + 1].tag = "Identifier"
            THEN let_declaration(q.tokens[q.current + 1].name,
                                 Parser_advance(q))
            ELSE Parsed(synchronize(q), None)
        \* fn if_statement
        if_else(condition, then_branch, else_branch) ==
            Parsed(else_branch.p,
                   Some(SIf(condition, then_branch.value.value,
                            Some(else_branch.value.value))))
        if_then(condition, then_branch) ==
            IF check(then_branch.p, "Else")
            THEN Once({statement("statement",
                                 Parser_advance(then_branch.p))},
                      LAMBDA else_branch :
                          if_else(condition, then_branch, else_branch))
            ELSE Parsed(then_branch.p,
                        Some(SIf(condition, then_branch.value.value, None)))
        if_statement(r) ==
            Once({statement("statement",
                            consume(r.p, "RightParen",
                                    "Expect ')' after if condition."))},
                 LAMBDA then_branch : if_then(r.value, then_branch))
        \* fn while_statement
        while_body(condition, body) ==
            Parsed(body.p, Some(SWhile(condition, body.value.value)))
        while_statement(r) ==
            Once({statement("statement",
                            consume(r.p, "RightParen",
                                    "Expect ')' after while condition."))},
                 LAMBDA body : while_body(r.value, body))
        \* fn block: one turn of its loop pushes the declaration, if any
        pushed(statements, before, d) ==
            Parsed(IF d.p.pc = "panic" THEN d.p
                   ELSE [d.p EXCEPT !.turns =
                             Append(@, [loop |-> "block", before |-> before,
                                        after |-> d.p.current])],
                   IF d.value.some THEN Append(statements, d.value.value)
                   ELSE statements)
        RECURSIVE block(_)
        block(r) ==
            IF r.p.pc = "parsing" /\ ~check(r.p, "RightBrace")
               /\ ~Parser_is_at_end(r.p)
            THEN Once({statement("declaration", r.p)},
                      LAMBDA d : block(pushed(r.value, r.p.current, d)))
            ELSE Parsed(consume(r.p, "RightBrace", "Expect '}' after block."),
                        Some(SBlock(r.value)))
        \* fn print_statement, fn expression_statement
        print_statement(r) ==
            Parsed(consume(r.p, "Semicolon", "Expected ';' after value"),
                   Some(SPrint(r.value)))
        expression_statement(r) ==
            Parsed(consume(r.p, "Semicolon", "Expected ';' after expression"),
                   Some(SExpr(r.value)))
    IN IF p.pc = "panic" THEN Parsed(p, Some(SBlock(<<>>)))
       ELSE IF kind = "declaration" /\ check(p, "Let")
       THEN let(Parser_advance(p))
       ELSE IF check(p, "If")
       THEN Once({expression("assignment",
                             consume(Parser_advance(p), "LeftParen",
                                     "Expect '(' after 'if'."))},
                 if_statement)
       ELSE IF check(p, "While")
       THEN Once({expression("assignment",
                             consume(Parser_advance(p), "LeftParen",
                                     "Expect '(' after 'while'."))},
                 while_statement)
       ELSE IF check(p, "LeftBrace")
       THEN block(Parsed(Parser_advance(p), <<>>))
       ELSE IF check(p, "Print")
       THEN Once({expression("assignment", Parser_advance(p))},
                 print_statement)
       ELSE Once({expression("assignment", p)}, expression_statement)

\* the token sequences parsed, each ending in EOF: every sequence of up to
\* MaxTokens tokens of `some`, and programs that take every path of the
\* parser
Programs ==
    LET t(tag) == Token(tag)
        id(name) == [tag |-> "Identifier", name |-> Id(name)]
        num(digit) == [tag |-> "Number", value |-> <<digit>>]
        some == {t("Let"), id("a"), num("1"), t("Semicolon"),
                 t("LeftBrace"), t("RightBrace"), t("Fn")}
        short == UNION {[1..n -> some] : n \in 0..MaxTokens}
        long ==
            {<<id("a"), t("Equals"), id("b"), t("Equals"), num("1"),
               t("Semicolon")>>,
             <<id("a"), t("LeftBracket"), num("0"), t("RightBracket"),
               t("Equals"), num("1"), t("Semicolon")>>,
             <<id("a"), t("Dot"), id("f"), t("Equals"), num("1"),
               t("Semicolon")>>,
             <<num("1"), t("Equals"), num("2"), t("Semicolon")>>,
             <<t("LeftParen"), id("a"), t("RightParen"), t("Equals"),
               num("1"), t("Semicolon")>>,
             <<id("a"), t("Plus"), num("1"), t("Equals"), num("2"),
               t("Semicolon")>>,
             <<id("a"), t("LeftParen"), id("b"), t("RightParen"),
               t("Equals"), num("1"), t("Semicolon")>>,
             <<id("a"), t("Equals"), num("1"), t("Equals"), num("2"),
               t("Semicolon")>>,
             <<t("Let"), t("Let"), id("a"), t("Equals"), num("1"),
               t("Semicolon")>>,
             <<t("Let"), num("1"), t("Fn"), t("Print"), num("1"),
               t("Semicolon")>>,
             <<t("Let"), num("1"), num("2"), t("Let"), id("a"),
               t("Semicolon")>>,
             <<t("Let"), t("Equals"), num("1"), t("Semicolon"), t("Print"),
               id("a"), t("Semicolon")>>,
             <<t("LeftBrace"), t("Let"), num("1"), t("Semicolon"), id("a"),
               t("Semicolon"), t("RightBrace"), t("Print"), id("a"),
               t("Semicolon")>>,
             <<t("LeftBrace"), t("LeftBrace"), id("a"), t("Semicolon"),
               t("RightBrace"), t("Let")>>,
             <<t("If"), t("LeftParen"), id("a"), t("Less"), num("1"),
               t("RightParen"), t("Print"), id("a"), t("Semicolon"),
               t("Else"), t("LeftBrace"), id("a"), t("Equals"), id("a"),
               t("Minus"), num("1"), t("Semicolon"), t("RightBrace")>>,
             <<t("If"), t("LeftParen"), t("True"), t("RightParen"),
               t("Semicolon")>>,
             <<t("If"), id("a")>>,
             <<t("While"), t("LeftParen"), t("Bang"), id("a"), t("And"),
               id("a"), t("EqualEqual"), num("1"), t("Or"), t("Minus"),
               id("a"), t("Star"), num("2"), t("Slash"), num("1"),
               t("GreaterEqual"), num("0"), t("RightParen"), id("a"),
               t("LeftParen"), num("1"), t("Comma"), id("a"),
               t("RightParen"), t("Semicolon")>>,
             <<t("While"), t("LeftParen"), id("a"), t("Semicolon")>>,
             <<t("Print"), id("a"), t("LeftParen"), t("RightParen"),
               t("Semicolon")>>,
             <<t("Print"), t("False"), t("BangEqual"), t("True"),
               t("Semicolon")>>,
             <<id("a"), t("LeftParen"), num("1"), t("Semicolon")>>}
    IN {Append(tokens, t("EOF")) : tokens \in short \cup long}

\* Parser::new(tokens) on one of the token sequences
ParseNew ==
    /\ parser = None
    /\ scanner = None
    /\ parser' \in {Parser_new(tokens) : tokens \in Programs}
    /\ UNCHANGED <<frames, environment, saved, ret, output, status,
                   executed, trace, scanner>>

\* one turn of the loop of parse
ParseDeclaration ==
    /\ parser # None
    /\ parser.pc = "parsing"
    /\ ~Parser_is_at_end(parser)
    /\ \E r \in {statement("declaration", parser)} :
           parser' =
               IF r.p.pc = "panic" THEN r.p
               ELSE [r.p EXCEPT
                        !.statements =
                            IF r.value.some THEN Append(@, r.value.value)
                            ELSE @,
                        !.turns =
                            Append(@, [loop |-> "parse",
                                       before |-> parser.current,
                                       after |-> r.p.current])]
    /\ UNCHANGED <<frames, environment, saved, ret, output, status,
                   executed, trace, scanner>>

\* the end of parse: Program { statements }
ParseEnd ==
    /\ parser # None
    /\ parser.pc = "parsing"
    /\ Parser_is_at_end(parser)
    /\ parser' = [parser EXCEPT !.pc = "done"]
    /\ UNCHANGED <<frames, environment, saved, ret, output, status,
                   executed, trace, scanner>>

ParseNext == ParseNew \/ ParseDeclaration \/ ParseEnd

SpecParse == Init /\ [][ParseNext]_vars

\* parse is a loop of the one thread there is: it keeps running
SpecParseLive == SpecParse /\ WF_vars(ParseNext)

----------------------------------------------------------------------------
(* Scope chains, stated without the recursion of get and assign *)

\* the blocks that declare x
LetBlocks == {ScopeScripts.block_let, ScopeScripts.block_let_set}

\* positions of the chain whose frame defines name
Definers(fr, env, name) ==
    {i \in 1..Len(Chain(fr, env)) : name \in DOMAIN fr[Chain(fr, env)[i]].values}

Min(S) == CHOOSE i \in S : \A j \in S : i <= j

\* the innermost frame of the chain that defines name (Definers non-empty)
InnermostDefiner(fr, env, name) ==
    Chain(fr, env)[Min(Definers(fr, env, name))]

----------------------------------------------------------------------------
(* Claims about the Environment operations (SpecEnv) *)

\* frames a and b differ at most in the binding of name in frame k
SameExcept(a, b, k, name) ==
    /\ Len(a) = Len(b)
    /\ \A j \in 1..Len(a) :
        /\ a[j].enclosing = b[j].enclosing
        /\ DOMAIN a[j].values = DOMAIN b[j].values
        /\ \A n \in DOMAIN a[j].values :
            (j # k \/ n # name) => a[j].values[n] = b[j].values[n]

\* C1: assign(name, v) started at any frame replaces the binding of name in
\* exactly the innermost frame of the chain that defines name, leaves every
\* other frame and binding as it was and reports success; when no frame of
\* the chain defines name it reports failure and no frame gains or changes a
\* binding.
C1_AssignInnermostOrFail ==
    \A env \in 1..Len(frames), name \in EnvNames,
       value \in EnvValues \cup {Number(3)} :
        LET r == assign(frames, env, name, value)
        IN IF Definers(frames, env, name) # {}
           THEN LET k == InnermostDefiner(frames, env, name)
                IN /\ r.ok
                   /\ r.frames[k].values[name] = value
                   /\ SameExcept(frames, r.frames, k, name)
           ELSE /\ ~r.ok
                /\ r.frames = frames

\* an assign has just succeeded from a frame that does not define the name,
\* past which two ancestors define it; only the nearer one took the value
C1_Witness ==
    /\ ret.op = "assign"
    /\ ret.ok
    /\ ret.name \notin DOMAIN frames[environment].values
    /\ Cardinality(Definers(frames, environment, ret.name)) = 2
    /\ frames[InnermostDefiner(frames, environment, ret.name)].values[ret.name]
         = ret.value
    /\ frames[1].values[ret.name] # ret.value

\* C2: get(name) yields the value bound in the innermost frame of the chain
\* that defines name, yields nothing only when no frame of the chain defines
\* it, and a get leaves every frame as it was.
C2_GetInnermost ==
    /\ [](\A env \in 1..Len(frames), name \in EnvNames :
            get(frames, env, name) =
                IF Definers(frames, env, name) = {}
                THEN None
                ELSE Some(frames[InnermostDefiner(frames, env, name)]
                              .values[name]))
    /\ [][ret'.op = "get" => frames' = frames]_vars

\* a get has just found, from a frame that does not define the name, the
\* nearer of two different bindings held by its ancestors
C2_Witness ==
    /\ ret.op = "get"
    /\ ret.name \notin DOMAIN frames[environment].values
    /\ Cardinality(Definers(frames, environment, ret.name)) = 2
    /\ ret.result.some
    /\ ret.result.value # frames[1].values[ret.name]

----------------------------------------------------------------------------
(* Claims about scopes (SpecScope) *)

\* the interpreter state in which a statement starts, with env current
StateAt(env) ==
    [frames |-> frames, environment |-> env, output |-> <<>>,
     status |-> "ok", message |-> "", fuel |-> MaxSteps, call |-> 0,
     trace |-> <<>>]

\* C3: define(name, v) binds name in the current frame only and leaves every
\* other frame as it was; so a block that executes `let x = ..` leaves, once
\* it has exited, the binding of x that its enclosing scope sees as it was
\* before the block was entered.
C3_DefineCurrentFrameOnly ==
    /\ \A env \in 1..Len(frames), name \in {Id("x"), Id("y")} :
        LET after == define(frames, env, name, Number(3))
        IN /\ after[env].values[name] = Number(3)
           /\ Len(after) = Len(frames)
           /\ \A j \in 1..Len(frames) : j # env => after[j] = frames[j]
           /\ after[env].enclosing = frames[env].enclosing
           /\ DOMAIN after[env].values
                  = DOMAIN frames[env].values \cup {name}
           /\ \A k \in DOMAIN frames[env].values :
                  k # name => after[env].values[k] = frames[env].values[k]
    /\ \A env \in 1..Len(frames), block \in LetBlocks :
        LET r == execute(block, StateAt(env))
        IN /\ Running(r.s)
           /\ r.s.environment = env
           /\ get(r.s.frames, env, Id("x")) = get(frames, env, Id("x"))
           /\ SubSeq(r.s.frames, 1, Len(frames)) = frames

\* a block has just run `let x = 5` while the global x held another value,
\* which it still holds
C3_Witness ==
    /\ ret.op = "execute"
    /\ ret.stmt \in LetBlocks
    /\ status = "ok"
    /\ Id("x") \in DOMAIN frames[1].values
    /\ frames[1].values[Id("x")] \in {Number(1), Number(2)}
    /\ \E k \in DOMAIN trace : trace[k].ev = "stmt" /\ trace[k].kind = "Let"
                                   /\ trace[k].env # 1

\* C4: when a block, an iteration of a for loop or a call of a user function
\* is over, with or without a propagating return, Interpreter.environment is
\* the frame it was when the construct started; between top-level
\* statements it is the global frame.
C4_EnvironmentRestored ==
    /\ status = "ok" => environment = 1
    /\ \A k \in DOMAIN trace :
        trace[k].ev \in {"exit", "result"} =>
            trace[k].after = trace[k].before

\* one statement ended a block, a loop iteration and a call by a propagating
\* return and, before that, a block and an iteration normally
C4_Witness ==
    /\ status = "ok"
    /\ \E k \in DOMAIN trace :
        trace[k].ev = "exit" /\ trace[k].construct = "block" /\ trace[k].err
    /\ \E k \in DOMAIN trace :
        trace[k].ev = "exit" /\ trace[k].construct = "for" /\ trace[k].err
    /\ \E k \in DOMAIN trace :
        trace[k].ev = "exit" /\ trace[k].construct = "block" /\ ~trace[k].err
    /\ \E k \in DOMAIN trace :
        trace[k].ev = "exit" /\ trace[k].construct = "for" /\ ~trace[k].err
    /\ \E k \in DOMAIN trace : trace[k].ev = "result" /\ trace[k].returned

----------------------------------------------------------------------------
(* Calls and return, read off the history of the statement just executed *)

\* the statements that bind x to the result of a call
LetCalls ==
    {CallScripts.let_deep_1, CallScripts.let_deep_2, CallScripts.let_deep_3,
     CallScripts.let_outer, CallScripts.let_quiet, CallScripts.let_bare,
     CallScripts.let_peek}

\* positions of the history that hold an event of the given kind
Events(kind) == {i \in DOMAIN trace : trace[i].ev = kind}

\* the first position of S after position i, 0 when there is none
FirstAfter(S, i) ==
    IF \E j \in S : j > i
    THEN CHOOSE j \in S : j > i /\ \A k \in S : k > i => k >= j
    ELSE 0

\* the value x is bound to by each of the statements `let x = <call>;`
ExpectedResult(stmt) ==
    CASE stmt = CallScripts.let_deep_1 -> Number(1)
      [] stmt = CallScripts.let_deep_2 -> Number(2)
      [] stmt = CallScripts.let_deep_3 -> Number(0)
      [] stmt = CallScripts.let_outer  -> Number(12)
      [] stmt = CallScripts.let_quiet  -> Number(0)
      [] stmt = CallScripts.let_bare   -> Number(0)
      [] stmt = CallScripts.let_peek   -> Number(3)
      [] stmt = CallScripts.let_all ->
            Array(<<Number(2), Number(0), Number(0)>>)

\* C5: once a return statement has executed in a call, no statement of that
\* call is executed afterwards, whatever blocks, loops and branches enclose
\* the return; the next call to finish is that call and its result is the
\* returned value; a call whose own body executed no return does not finish
\* with a returned value, whatever the calls it made returned.
C5_ReturnPropagation ==
    /\ \A i \in Events("return") :
          /\ \A j \in Events("stmt") :
                j > i => trace[j].call # trace[i].call
          /\ trace[i].call # 0 =>
                LET j == FirstAfter(Events("result"), i)
                IN /\ j # 0
                   /\ trace[j].call = trace[i].call
                   /\ trace[j].returned
                   /\ trace[j].value = trace[i].value
    /\ \A j \in Events("result") :
          trace[j].returned <=>
              \E i \in Events("return") :
                  i < j /\ trace[i].call = trace[j].call

\* a call of outer: deep returned from inside its while, for, if and blocks,
\* outer went on with its next statement and returned its own value
C5_Witness ==
    /\ ret.op = "execute" /\ ret.stmt = CallScripts.let_outer /\ status = "ok"
    /\ frames[1].values[Id("x")] = Number(12)
    /\ \E i \in Events("return"), j \in Events("stmt") :
          /\ j > i
          /\ trace[i].value = Number(2)
          /\ trace[j].call # 0
          /\ trace[j].call # trace[i].call
          /\ \E k \in Events("exit") :
                k > i /\ k < j /\ trace[k].construct = "for" /\ trace[k].err

\* C6: the arguments of a call are evaluated left to right in the caller's
\* environment before any parameter is bound; the body runs in a fresh frame
\* that holds the parameters only and whose parent is the closure frame of
\* the function; a name bound only in the caller's local frame is not
\* visible to the body.
C6_CallEnvironment ==
    /\ \A j \in Events("call") :
          LET c == trace[j].call
              args == {i \in Events("arg") : trace[i].call = c}
              binds == {i \in Events("bind") : trace[i].call = c}
              body == FirstAfter(Events("stmt"), j)
          IN /\ \A a \in args, b \in binds : a < b
             /\ \A a \in args : a < j /\ trace[a].env = trace[j].caller
             /\ \A b \in binds : b < j
             /\ {trace[a].index : a \in args} = 1..Len(trace[j].params)
             /\ \A a1, a2 \in args :
                   a1 < a2 <=> trace[a1].index < trace[a2].index
             /\ trace[j].parent = trace[j].closure
             /\ trace[j].visible =
                   {trace[j].params[k] : k \in 1..Len(trace[j].params)}
             /\ body # 0 => trace[body].env = c /\ trace[body].call = c
    /\ (ret.op = "execute" /\ ret.stmt = CallScripts.block_caller
            /\ \E j \in Events("call") : trace[j].name = Id("peek")) =>
          /\ output \in {<<"-", "2", "\n">>, <<"-", "2", "\n", "3", "\n">>}
          /\ IF Id("z") \in DOMAIN frames[1].values
             THEN status = "ok" /\ output = <<"-", "2", "\n", "3", "\n">>
             ELSE status = "panic" /\ ret.message = "Undefined variable"

\* pair and peek were called from a block that binds z: the arguments saw
\* and changed the block's z, the body of peek did not see it
C6_Witness ==
    /\ ret.op = "execute" /\ ret.stmt = CallScripts.block_caller
    /\ status = "panic" /\ ret.message = "Undefined variable"
    /\ output = <<"-", "2", "\n">>
    /\ \E j \in Events("call") :
          /\ trace[j].name = Id("pair")
          /\ trace[j].caller # trace[j].closure
          /\ Cardinality({i \in Events("arg") :
                             trace[i].call = trace[j].call}) = 2
    /\ \E j \in Events("call") :
          /\ trace[j].name = Id("peek")
          /\ Id("z") \in DOMAIN frames[trace[j].caller].values
          /\ trace[j].caller # trace[j].closure

\* C7: a call that executed a return results in the value of that return, a
\* call whose body completed without one results in Number 0, and a return
\* without an expression returns Number 0.
C7_CallResult ==
    /\ \A j \in Events("result") :
          IF trace[j].returned
          THEN \E i \in Events("return") :
                  /\ i < j
                  /\ trace[i].call = trace[j].call
                  /\ trace[i].value = trace[j].value
          ELSE trace[j].value = Number(0)
    /\ \A i \in Events("return") : trace[i].bare => trace[i].value = Number(0)
    /\ (ret.op = "execute" /\ ret.stmt \in LetCalls \cup {CallScripts.let_all}
            /\ status = "ok") =>
          frames[1].values[Id("x")] = ExpectedResult(ret.stmt)

\* one statement with a call that returns a value, a call that completes
\* without a return and a call that executes a bare return
C7_Witness ==
    /\ ret.op = "execute" /\ ret.stmt = CallScripts.let_all /\ status = "ok"
    /\ frames[1].values[Id("x")] = Array(<<Number(2), Number(0), Number(0)>>)
    /\ \E j \in Events("result") : ~trace[j].returned
    /\ \E i \in Events("return") : trace[i].bare
    /\ \E i \in Events("return") : trace[i].value = Number(2)

----------------------------------------------------------------------------
(* Arrays, Maps and closures: what a statement did to the global frame *)

\* the global bindings, and the interpreter state at top level over an arena
Globals(fr) == fr[1].values
TopLevel(fr) ==
    [frames |-> fr, environment |-> 1, output |-> <<>>, status |-> "ok",
     message |-> "", fuel |-> MaxSteps, call |-> 0, trace |-> <<>>]

\* the statements `let r = (<object>[<index>] = v);`, `let r = (<object>.f = v);`
Writes ==
    {DataScripts.write_n_index, DataScripts.write_n_dot,
     DataScripts.write_m_index, DataScripts.write_m_dot,
     DataScripts.write_a_index, DataScripts.write_a_chain,
     DataScripts.write_c_chain}

\* the write expression of such a statement, its key, the value it writes
\* and the expression that reads the place it writes
WriteOf(stmt) == stmt.initializer.value
KeyOf(w) == IF w.expr = "DotAssign" THEN w.field ELSE w.index.value
WrittenBy(w) == Number(w.value.value)
ReadOf(w) ==
    IF w.expr = "DotAssign" THEN EDot(w.object, w.field)
    ELSE EIndex(w.object, w.index)

\* the collection old with value stored at key (a Map key or an Array index)
Stored(old, key, value) ==
    IF old.tag = "Map"
    THEN Map([k \in DOMAIN old.map \cup {key} |->
                 IF k = key THEN value ELSE old.map[k]])
    ELSE Array([k \in 1..Len(old.arr) |->
                   IF k = key + 1 THEN value ELSE old.arr[k]])

\* the line print writes for the entry of a Map of numbers, 0 when absent
PrintedEntry(value, key) ==
    (IF key \in DOMAIN value.map THEN to_string(value.map[key].n)
     ELSE <<"0">>) \o <<"\n">>

\* C8: a function reads the variables of its defining scope as they are when
\* it is called: after `m["a"] = 9` (or `y = 2`) that follows the declaration
\* the call yields 9 (or 2), and a call of the global get yields the entry
\* that the global m holds at the time of the call.
C8_CaptureByReference ==
    /\ [](ret.op = "execute" /\ ret.stmt = DataScripts.block_capture_write
            => status = "ok" /\ output = <<"9", "\n">>)
    /\ [](ret.op = "execute" /\ ret.stmt = DataScripts.block_capture_assign
            => status = "ok" /\ output = <<"2", "\n">>)
    /\ [][(ret'.op = "execute" /\ ret'.stmt = DataScripts.call_get
              /\ status' = "ok")
            => Globals(frames')[Id("x")] =
                   Globals(frames)[Id("m")].map[Id("a")]
          ]_vars

\* get was declared when m["a"] was 1 and called after m["a"] = 9
C8_Witness ==
    /\ ret.op = "execute" /\ ret.stmt = DataScripts.block_capture_write
    /\ status = "ok"
    /\ output = <<"9", "\n">>
    /\ \E i \in Events("stmt"), j \in Events("call") :
          /\ trace[i].kind = "Function"
          /\ trace[j].name = Id("get")
          /\ i < j
          /\ trace[j].closure = trace[i].env

\* C9: an index or field write through n, which was bound to a copy of m by
\* `let n = m;` or by `n = m`, and a write through the parameter that m was
\* passed for, take effect on that binding and leave the value bound to m
\* as it was.
C9_CopySemantics ==
    [][(ret'.op = "execute" /\ status' = "ok"
           /\ ret'.stmt \in {DataScripts.write_n_index, DataScripts.write_n_dot,
                             DataScripts.call_put, DataScripts.block_copy})
         => /\ Globals(frames')[Id("m")] = Globals(frames)[Id("m")]
            /\ (ret'.stmt = DataScripts.call_put
                  => Globals(frames')[Id("r")] = Number(5))
            /\ (ret'.stmt \in {DataScripts.write_n_index,
                               DataScripts.write_n_dot}
                  => Globals(frames')[Id("n")] =
                        Stored(Globals(frames)[Id("n")],
                               KeyOf(WriteOf(ret'.stmt)),
                               WrittenBy(WriteOf(ret'.stmt))))
            /\ (ret'.stmt = DataScripts.block_copy
                  => output' =
                        PrintedEntry(Globals(frames)[Id("m")], Id("a"))
                            \o PrintedEntry(Globals(frames)[Id("m")], Id("b")))
       ]_vars

\* n, bound by `let n = m;`, was written through and m was not changed
C9_Witness ==
    /\ ret.op = "execute" /\ ret.stmt = DataScripts.write_n_index
    /\ status = "ok"
    /\ Globals(frames)[Id("n")] = Map(Id("a") :> Number(5))
    /\ Globals(frames)[Id("m")] = Map(Id("a") :> Number(1))

----------------------------------------------------------------------------
(* C11: a closure keeps its defining scope alive.  Once the block          *)
(* { let x = 3; fn f() { x = x + 1; return x; } h = f; } has exited, every *)
(* call h() from the top level finds the block's frame, which is no longer *)
(* on the environment chain, still in the arena with x bound; the call     *)
(* reads x there, assigns x + 1 there, and returns the value it assigned,  *)
(* so each call sees the assignment of the call before it.                 *)

\* the frame the function bound to h at the top level closes over
ScopeOf(fr) == Globals(fr)[Id("h")].closure

HoldsClosure(fr) ==
    /\ Id("h") \in DOMAIN Globals(fr)
    /\ Globals(fr)[Id("h")].tag = "Function"

C11_ClosureKeepsScope ==
    [][(/\ ret'.op = "execute"
        /\ ret'.stmt = FlowScripts.call_h
        /\ HoldsClosure(frames))
       => /\ environment = 1
          /\ ScopeOf(frames) \in 2..Len(frames)
          /\ ScopeOf(frames) \notin {Chain(frames, environment)[k] :
                                        k \in 1..Len(Chain(frames, environment))}
          /\ Id("x") \in DOMAIN frames[ScopeOf(frames)].values
          /\ status' = "ok"
          /\ ScopeOf(frames') = ScopeOf(frames)
          /\ frames'[ScopeOf(frames)].values[Id("x")] =
                 Number(frames[ScopeOf(frames)].values[Id("x")].n + 1)
          /\ Globals(frames')[Id("r")] =
                 frames'[ScopeOf(frames)].values[Id("x")]]_vars

\* the second call after the block has exited returned 5
C11_Witness ==
    /\ ret.op = "execute"
    /\ ret.stmt = FlowScripts.call_h
    /\ status = "ok"
    /\ HoldsClosure(frames)
    /\ Globals(frames)[Id("r")] = Number(5)
    /\ frames[ScopeOf(frames)].values[Id("x")] = Number(5)

----------------------------------------------------------------------------
(* C12: `for (x in arr)` over an Array of length n whose body executes no  *)
(* return starts the body n times, the k-th time with x bound to element   *)
(* k-1 of the Array, and finishes it n times; over an empty Array the body *)
(* is never started and the statement after the loop is executed.          *)

\* the iterations started, and the loop bodies left, by the last statement
Iterations == SelectSeq(trace, LAMBDA event : event.ev = "iteration")
BodiesLeft ==
    SelectSeq(trace, LAMBDA event : event.ev = "exit"
                                    /\ event.construct = "for")

\* the last statement ran its loop body once for each of `elements`, in order
VisitedInOrder(elements) ==
    /\ Len(Iterations) = Len(elements)
    /\ \A k \in 1..Len(elements) :
           /\ Iterations[k].index = k
           /\ Iterations[k].element = elements[k]
    /\ Len(BodiesLeft) = Len(elements)
    /\ \A k \in 1..Len(BodiesLeft) : ~BodiesLeft[k].err

C12_ForVisitsInOrder ==
    (ret.op = "execute" /\ status = "ok") =>
        /\ (/\ ret.stmt = FlowScripts.for_a
            /\ Id("a") \in DOMAIN Globals(frames))
           => /\ VisitedInOrder(Globals(frames)[Id("a")].arr)
              /\ Len(output) = 2 * Len(Globals(frames)[Id("a")].arr)
              /\ \A k \in 1..Len(Globals(frames)[Id("a")].arr) :
                     <<output[2 * k - 1]>> =
                         value_to_string(Globals(frames)[Id("a")].arr[k])
        /\ ret.stmt = FlowScripts.for_digits
           => /\ VisitedInOrder(<<Number(1), Number(2), Number(3)>>)
              /\ output = <<"1", "2", "3", "\n">>
        /\ ret.stmt = FlowScripts.for_empty
           => /\ VisitedInOrder(<<>>)
              /\ output = <<"7", "\n">>

\* the loop over a = [4, 5] has printed 4 and 5
C12_Witness ==
    /\ ret.op = "execute"
    /\ ret.stmt = FlowScripts.for_a
    /\ status = "ok"
    /\ Len(Iterations) = 2
    /\ output = <<"4", "\n", "5", "\n">>


----------------------------------------------------------------------------
(* C13: each iteration of a for loop runs in a frame of its own, a new     *)
(* child of the scope the loop is in that binds the loop variable and      *)
(* nothing else.  A name the body defined by `let` in one iteration is     *)
(* undefined when the next iteration starts, the loop variable is          *)
(* undefined in the enclosing scope after the loop, and of what the body   *)
(* did only its assignments to names of the enclosing scope remain.        *)

C13_FreshFramePerIteration ==
    ret.op = "execute" =>
        /\ \A k \in 1..Len(Iterations) :
               /\ Iterations[k].parent = Iterations[k].enclosing
               /\ Iterations[k].env # Iterations[k].enclosing
               /\ Iterations[k].visible = {Id("e")}
               /\ \A j \in 1..(k - 1) : Iterations[j].env # Iterations[k].env
        /\ Id("e") \notin DOMAIN Globals(frames)
        /\ ret.stmt = FlowScripts.for_fresh
           => /\ Len(Iterations) = 2
              /\ status = "panic"
              /\ ret.message = "Undefined variable"
              /\ output = <<>>
        /\ ret.stmt = FlowScripts.for_var_after
           => /\ Len(BodiesLeft) = 2
              /\ status = "panic"
              /\ ret.message = "Undefined variable"
              /\ output = <<>>
        /\ (ret.stmt = FlowScripts.for_shadow /\ status = "ok")
           => output = <<"0", "\n", "3", "\n">>

\* the second iteration of for_fresh started and did not find the q that
\* the first iteration had defined
C13_Witness ==
    /\ ret.op = "execute"
    /\ ret.stmt = FlowScripts.for_fresh
    /\ status = "panic"
    /\ Len(Iterations) = 2
    /\ Iterations[2].visible = {Id("e")}

----------------------------------------------------------------------------
(* C14: division by a Number 0, reading or writing an Array at an index    *)
(* outside 0..len-1, and calling a value that is not a function each abort *)
(* the run with a runtime error: the statement binds no value, leaves      *)
(* every frame as it was and prints nothing, and no statement is           *)
(* interpreted once the run has been aborted.                              *)

\* name is bound at the top level to a value with this tag
Holds(name, tag) ==
    /\ name \in DOMAIN Globals(frames)
    /\ Globals(frames)[name].tag = tag

\* this step aborts the run with `message` and without any effect
Aborts(message) ==
    /\ status' = "panic"
    /\ ret'.message = message
    /\ frames' = frames
    /\ environment' = environment
    /\ output' = <<>>

C14_RuntimeErrorsAbort ==
    [][/\ status = "ok"
       /\ ret'.op = "execute"
          => /\ (/\ ret'.stmt = ErrorScripts.div_z
                 /\ Holds(Id("z"), "Number")
                 /\ Globals(frames)[Id("z")].n = 0)
                => Aborts("Division by zero")
             /\ (/\ ret'.stmt \in {ErrorScripts.read_i, ErrorScripts.write_i}
                 /\ Holds(Id("a"), "Array")
                 /\ Holds(Id("i"), "Number")
                 /\ Globals(frames)[Id("i")].n \notin
                        0..(Len(Globals(frames)[Id("a")].arr) - 1))
                => Aborts("Array index out of bounds")
             /\ (/\ ret'.stmt = ErrorScripts.call_x
                 /\ Id("x") \in DOMAIN Globals(frames)
                 /\ Globals(frames)[Id("x")].tag # "Function")
                => Aborts("Can only call functions")]_vars

\* a write at index 2 of the two-element Array a has aborted the run
C14_Witness ==
    /\ ret.op = "execute"
    /\ ret.stmt = ErrorScripts.write_i
    /\ status = "panic"
    /\ ret.message = "Array index out of bounds"
    /\ Globals(frames)[Id("i")] = Number(2)
    /\ Globals(frames)[Id("a")] = Array(<<Number(1), Number(2)>>)
    /\ Id("r") \notin DOMAIN Globals(frames)

----------------------------------------------------------------------------
(* C15: a call of a user function with more or fewer arguments than the    *)
(* function has parameters aborts the run before an argument is evaluated  *)
(* and before a statement of the body runs: pair(x = 5) and                *)
(* pair(x = 5, 2, 3), for fn pair(p, q) { x = 9; return p; }, evaluate no  *)
(* argument, enter no call, and leave every frame, x included, unchanged.  *)

----------------------------------------------------------------------------
(* C16: reading a Map at a String key, m["k"], or at a field, m.k, that    *)
(* the Map does not hold yields Number 0 and is not an error, and the Map  *)
(* is the same after the read: the key is not added.  (A key the Map does  *)
(* hold yields the value stored under it.)                                 *)

\* what a read of m at `key` yields
Lookup(m, key) == IF key \in DOMAIN m.map THEN m.map[key] ELSE Number(0)

C16_MissingKeyReadsZero ==
    [][(/\ ret'.op = "execute"
        /\ ret'.stmt \in {ErrorScripts.read_key, ErrorScripts.read_field}
        /\ Holds(Id("m"), "Map"))
       => /\ status' = "ok"
          /\ Globals(frames')[Id("r")] =
                 Lookup(Globals(frames)[Id("m")], Id("k"))
          /\ Globals(frames')[Id("m")] = Globals(frames)[Id("m")]
          /\ Id("k") \notin DOMAIN Globals(frames)[Id("m")].map
             => /\ Globals(frames')[Id("r")] = Number(0)
                /\ Id("k") \notin DOMAIN Globals(frames')[Id("m")].map]_vars

\* m.k was read from m = {"b": 4}: r is 0 and m is still {"b": 4}
C16_Witness ==
    /\ ret.op = "execute"
    /\ ret.stmt = ErrorScripts.read_field
    /\ status = "ok"
    /\ Holds(Id("m"), "Map")
    /\ Globals(frames)[Id("m")] = Map((Id("b") :> Number(4)))
    /\ Globals(frames)[Id("r")] = Number(0)

----------------------------------------------------------------------------
(* C17: intrinsics cannot be shadowed.  A call whose callee is the bare    *)
(* name len, or print, runs the intrinsic whatever the environment binds   *)
(* to that name: len([1, 2, 3]) is 3 and print(4) writes "4 " and a        *)
(* newline and is 0, no user function is entered, and no frame changes     *)
(* but for the result the statement binds.                                 *)

\* this step binds r to `value` at the top level and changes nothing else
BindsOnly(value) ==
    /\ status' = "ok"
    /\ Len(frames') = Len(frames)
    /\ Globals(frames') = Insert(Globals(frames), Id("r"), value)
    /\ \A k \in 2..Len(frames) : frames'[k] = frames[k]
    /\ \A k \in DOMAIN trace' : trace'[k].ev # "call"

C17_IntrinsicsNotShadowed ==
    [][ret'.op = "execute"
       => /\ ret'.stmt = ErrorScripts.call_len
             => /\ BindsOnly(Number(3))
                /\ output' = <<>>
          /\ ret'.stmt = ErrorScripts.call_print
             => /\ BindsOnly(Number(0))
                /\ output' = <<"4", " ", "\n">>]_vars

\* len([1, 2, 3]) was 3 while len was bound to a user function
C17_Witness ==
    /\ ret.op = "execute"
    /\ ret.stmt = ErrorScripts.call_len
    /\ status = "ok"
    /\ Holds(len_name, "Function")
    /\ Globals(frames)[len_name].name = len_name
    /\ Globals(frames)[Id("r")] = Number(3)

----------------------------------------------------------------------------
(* C18: equality never errors.  For every pair of values a == b is a       *)
(* Boolean: true exactly when the two have the same tag among Number,      *)
(* String, Boolean, Array and Map and are the same structure, compared     *)
(* element by element with ==; false for every pair of different tags and  *)
(* for every pair with a Function, a Function and itself included, also    *)
(* where the Function is an element compared inside an Array or a Map.     *)
(* a != b is the negation of a == b for every pair.                        *)

\* a Function occurs in the value
RECURSIVE HasFunction(_)
HasFunction(value) ==
    CASE value.tag = "Function" -> TRUE
      [] value.tag = "Array" ->
            \E k \in DOMAIN value.arr : HasFunction(value.arr[k])
      [] value.tag = "Map" ->
            \E k \in DOMAIN value.map : HasFunction(value.map[k])
      [] OTHER -> FALSE

\* the two are one and the same structure and no Function is compared
SameStructure(left, right) ==
    /\ left.tag = right.tag
    /\ left.tag \in {"Number", "String", "Boolean", "Array", "Map"}
    /\ left = right
    /\ ~HasFunction(left)

C18_EqualityTotal ==
    ret.op = "execute" =>
        /\ status = "ok"
        /\ ret.stmt = EqScripts.equal
           => Globals(frames)[Id("r")] =
                  Boolean(SameStructure(Globals(frames)[Id("a")],
                                        Globals(frames)[Id("b")]))
        /\ ret.stmt = EqScripts.not_equal
           => Globals(frames)[Id("r")] =
                  Boolean(~SameStructure(Globals(frames)[Id("a")],
                                         Globals(frames)[Id("b")]))
        /\ Globals(frames)[Id("a")].tag # Globals(frames)[Id("b")].tag
           => Globals(frames)[Id("r")] =
                  Boolean(ret.stmt = EqScripts.not_equal)
        /\ "Function" \in {Globals(frames)[Id("a")].tag,
                           Globals(frames)[Id("b")].tag}
           => Globals(frames)[Id("r")] =
                  Boolean(ret.stmt = EqScripts.not_equal)

\* f == f was evaluated, for a = f and b = f, and is false
C18_Witness ==
    /\ ret.op = "execute"
    /\ ret.stmt = EqScripts.equal
    /\ Globals(frames)[Id("a")] = Globals(frames)[Id("f")]
    /\ Globals(frames)[Id("b")] = Globals(frames)[Id("f")]
    /\ Globals(frames)[Id("r")] = Boolean(FALSE)

----------------------------------------------------------------------------
(* C19: `and` and `or` short-circuit.  In c and b the operand b is         *)
(* evaluated, with its assignment, its call or its runtime error, only if  *)
(* c is truthy, and in c or b only if c is falsy; then the value of b is   *)
(* the result.  Otherwise b is not evaluated: nothing is assigned, no      *)
(* function is entered, no error is raised, the result is false for `and`  *)
(* and true for `or`, and no frame changes but for the result bound.       *)

\* the right operand of the statement of this step is evaluated
RightIsEvaluated ==
    IF ret'.stmt.initializer.value.operator = "And"
    THEN is_truthy(Globals(frames)[Id("c")])
    ELSE ~is_truthy(Globals(frames)[Id("c")])

\* this step skipped the right operand and bound r to the Boolean
ShortCircuits ==
    /\ status' = "ok"
    /\ Len(frames') = Len(frames)
    /\ Globals(frames') =
           Insert(Globals(frames), Id("r"),
                  Boolean(ret'.stmt.initializer.value.operator = "Or"))
    /\ \A k \in 2..Len(frames) : frames'[k] = frames[k]
    /\ \A k \in DOMAIN trace' : trace'[k].ev # "call"

C19_ShortCircuit ==
    [][(/\ ret'.op = "execute"
        /\ Id("c") \in DOMAIN Globals(frames))
       => /\ (/\ ret'.stmt \in {FlowScripts.and_set, FlowScripts.or_set}
              /\ Id("x") \in DOMAIN Globals(frames))
             => IF RightIsEvaluated
                THEN /\ status' = "ok"
                     /\ Globals(frames')[Id("x")] = Number(1)
                     /\ Globals(frames')[Id("r")] = Number(1)
                ELSE ShortCircuits
          /\ ret'.stmt \in {FlowScripts.and_div, FlowScripts.or_div}
             => IF RightIsEvaluated
                THEN /\ status' = "panic"
                     /\ ret'.message = "Division by zero"
                ELSE ShortCircuits
          /\ (/\ ret'.stmt = FlowScripts.and_call
              /\ HoldsClosure(frames))
             => IF RightIsEvaluated
                THEN /\ status' = "ok"
                     /\ \E k \in DOMAIN trace' : trace'[k].ev = "call"
                     /\ frames'[ScopeOf(frames)].values[Id("x")] =
                            Number(frames[ScopeOf(frames)]
                                       .values[Id("x")].n + 1)
                     /\ Globals(frames')[Id("r")] =
                            frames'[ScopeOf(frames)].values[Id("x")]
                ELSE ShortCircuits]_vars

\* c and 1 / 0 was evaluated with c = 0: no error, and r is false
C19_Witness ==
    /\ ret.op = "execute"
    /\ ret.stmt = FlowScripts.and_div
    /\ status = "ok"
    /\ Globals(frames)[Id("c")] = Number(0)
    /\ Globals(frames)[Id("r")] = Boolean(FALSE)

----------------------------------------------------------------------------
(* C20: a return that propagates to the top level is not an error: the run *)
(* is not aborted, the return is reported as an unused top-level return    *)
(* ("Warning: Top-level return value ignored: " and the value), and        *)
(* interpret goes on normally.                                             *)

C20_TopLevelReturnReported ==
    (ret.op = "execute" /\ ret.result.err) =>
        /\ status = "ok"
        /\ Len(output) > Len(Warning)
        /\ SubSeq(output, 1, Len(Warning)) = Warning
        /\ output[Len(output)] = "\n"

-----------------------------------------------------------------------------
(* The scanner.                                                            *)

Scanning == scanner # None /\ scanner.pc = "scanning"
ScanDone == scanner # None /\ scanner.pc = "done"
ScanPanicked == scanner # None /\ scanner.pc = "panic"

EndsOfInput(tokens) == {k \in 1..Len(tokens) : tokens[k].token.tag = "EOF"}

\* C21: scan_tokens terminates on every source text, and when it meets no
\* lexical error it returns a token sequence with exactly one end-of-input
\* token, in the last position, having consumed the whole text; every turn
\* of its loop consumes at least one character.
C21_ScanTerminates ==
    /\ <>(ScanDone \/ ScanPanicked)
    /\ [](ScanDone =>
            /\ EndsOfInput(scanner.tokens) = {Len(scanner.tokens)}
            /\ scanner.current = Len(scanner.source))
    /\ [][Scanning => scanner'.current > scanner.current \/ ScanDone']_vars

C21_Witness ==
    /\ ScanDone
    /\ Len(scanner.source) = MaxSourceLen
    /\ Len(scanner.tokens) = MaxSourceLen + 1

\* an identifier-shaped lexeme: a letter or '_', then letters, digits, '_'
IdentifierShaped(text) ==
    /\ text # <<>>
    /\ text[1] \in AsciiLetters \cup {"_"}
    /\ \A k \in 1..Len(text) :
           text[k] \in AsciiLetters \cup AsciiDigits \cup {"_"}

\* the reserved words and the tokens that are their own
ReservedWords ==
    {<<<<"l", "e", "t">>, "Let">>, <<<<"p", "r", "i", "n", "t">>, "Print">>,
     <<<<"i", "f">>, "If">>, <<<<"e", "l", "s", "e">>, "Else">>,
     <<<<"w", "h", "i", "l", "e">>, "While">>, <<<<"f", "o", "r">>, "For">>,
     <<<<"i", "n">>, "In">>, <<<<"f", "n">>, "Fn">>,
     <<<<"r", "e", "t", "u", "r", "n">>, "Return">>,
     <<<<"t", "r", "u", "e">>, "True">>,
     <<<<"f", "a", "l", "s", "e">>, "False">>,
     <<<<"a", "n", "d">>, "And">>, <<<<"o", "r">>, "Or">>}

\* C22: a source text that is one identifier-shaped lexeme is scanned as
\* the keyword token of the reserved word it is (let, print, if, else,
\* while, for, in, fn, return, true, false, and, or), and as an identifier
\* carrying its text when it is no reserved word.
C22_ReservedWordsAreKeywords ==
    ScanDone /\ IdentifierShaped(scanner.source) =>
        /\ Len(scanner.tokens) = 2
        /\ \A word \in ReservedWords :
               scanner.source = word[1] =>
                   scanner.tokens[1].token = [tag |-> word[2]]
        /\ (\A word \in ReservedWords : scanner.source # word[1]) =>
               scanner.tokens[1].token =
                   [tag |-> "Identifier", name |-> scanner.source]

\* where the character after the first k characters of text lies: in
\* code, inside a string literal or inside a `//` comment
RECURSIVE Mode(_, _)
Mode(text, k) ==
    IF k = 0 THEN "code"
    ELSE CHOOSE mode \in
             {CASE before = "string" ->
                       IF text[k] = "\"" THEN "code" ELSE "string"
                [] before = "comment" ->
                       IF text[k] = "\n" THEN "code" ELSE "comment"
                [] OTHER ->
                       IF text[k] = "\"" THEN "string"
                       ELSE IF text[k] = "/" /\ k < Len(text)
                               /\ text[k + 1] = "/"
                       THEN "comment"
                       ELSE "code"
              : before \in {Mode(text, k - 1)}} : TRUE

\* the characters some rule of the scanner begins with
RuleChars ==
    {"\"", "+", "-", "*", "/", "(", ")", "{", "}", ";", ",", "!", "=", ">",
     "<", " ", "\t", "\r", "\n", "_"} \cup AsciiDigits \cup AsciiLetters

\* a string literal whose closing quote is missing before the end of input
UnterminatedString(text) == Mode(text, Len(text)) = "string"

\* a character outside strings and comments that matches no rule
UnmatchedCharacter(text) ==
    \E k \in 1..Len(text) :
        Mode(text, k - 1) = "code" /\ text[k] \notin RuleChars

\* the digits stand for more than i64::MAX = 9223372036854775807
ExceedsI64(digits) ==
    LET max == <<"9", "2", "2", "3", "3", "7", "2", "0", "3", "6", "8", "5",
                 "4", "7", "7", "5", "8", "0", "7">>
        order == <<"0", "1", "2", "3", "4", "5", "6", "7", "8", "9">>
        Greater(c, d) ==
            \E m, n \in 1..10 : order[m] = c /\ order[n] = d /\ m > n
        zeros == Cardinality({k \in 1..Len(digits) :
                                  \A j \in 1..k : digits[j] = "0"})
        at(k) == digits[zeros + k]
    IN \/ Len(digits) - zeros > Len(max)
       \/ /\ Len(digits) - zeros = Len(max)
          /\ \E k \in 1..Len(max) :
                 /\ \A j \in 1..(k - 1) : at(j) = max[j]
                 /\ Greater(at(k), max[k])

\* an integer literal, a maximal run of digits in code that no identifier
\* takes in, whose value does not fit 64 bits
OverflowingLiteral(text) ==
    \E i \in 1..Len(text) : \E j \in i..Len(text) :
        /\ Mode(text, i - 1) = "code"
        /\ \A k \in i..j : text[k] \in AsciiDigits
        /\ i = 1 \/ text[i - 1] \notin AsciiDigits \cup AsciiLetters \cup {"_"}
        /\ j = Len(text) \/ text[j + 1] \notin AsciiDigits
        /\ ExceedsI64(SubSeq(text, i, j))

\* C23 as stated: scanning fails exactly when the source has a string
\* literal without its closing quote or a character outside strings and
\* comments that matches no rule, and succeeds in every other case.
C23_FailsOnlyOnStringOrCharacter ==
    ScanDone \/ ScanPanicked =>
        (ScanPanicked <=> \/ UnterminatedString(scanner.source)
                          \/ UnmatchedCharacter(scanner.source))

\* C23 as amended: scanning fails, and returns no tokens, exactly when the
\* source has a string literal without its closing quote, a character
\* outside strings and comments that matches no rule, or an integer literal
\* above i64::MAX; in every other case it succeeds.
C23_LexicalErrors ==
    ScanDone \/ ScanPanicked =>
        (ScanPanicked <=> \/ UnterminatedString(scanner.source)
                          \/ UnmatchedCharacter(scanner.source)
                          \/ OverflowingLiteral(scanner.source))

C23_Witness ==
    /\ ScanPanicked
    /\ OverflowingLiteral(scanner.source)
    /\ ~UnterminatedString(scanner.source)
    /\ ~UnmatchedCharacter(scanner.source)
    /\ Len(scanner.tokens) = 1

-----------------------------------------------------------------------------
(* The parser.                                                             *)

Parsing == parser # None /\ parser.pc = "parsing"
ParseDone == parser # None /\ parser.pc = "done"
ParsePanicked == parser # None /\ parser.pc = "panic"

Tags(tokens) == [k \in 1..Len(tokens) |-> tokens[k].tag]

\* the program is the one expression statement e
ParsesTo(e) == ParseDone /\ parser.statements = <<SExpr(e)>>

InvalidTarget ==
    ParsePanicked /\ parser.message = "Invalid assignment target"

\* C24: `a = b = e` parses as `a = (b = e)`; `=` after a variable, an
\* index expression or a field expression gives Assign, IndexAssign or
\* DotAssign; after any other expression the parse fails with the
\* invalid-assignment-target error.
C24_AssignmentTargets ==
    LET tokens == parser.tokens
        name(k) == tokens[k].name
        number(k) == ENumber(tokens[k].value)
        is(tags) == Tags(tokens) = tags \o <<"Semicolon", "EOF">>
    IN ParseDone \/ ParsePanicked =>
        /\ is(<<"Identifier", "Equals", "Identifier", "Equals", "Number">>)
              => ParsesTo(EAssign(name(1), EAssign(name(3), number(5))))
        /\ is(<<"Identifier", "LeftBracket", "Number", "RightBracket",
                "Equals", "Number">>)
              => ParsesTo(EIndexAssign(EVariable(name(1)), number(3),
                                       number(6)))
        /\ is(<<"Identifier", "Dot", "Identifier", "Equals", "Number">>)
              => ParsesTo(EDotAssign(EVariable(name(1)), name(3), number(5)))
        /\ is(<<"Number", "Equals", "Number">>) => InvalidTarget
        /\ is(<<"Identifier", "Plus", "Number", "Equals", "Number">>)
              => InvalidTarget
        /\ is(<<"Identifier", "LeftParen", "Identifier", "RightParen",
                "Equals", "Number">>)
              => InvalidTarget
        /\ is(<<"Identifier", "Equals", "Number", "Equals", "Number">>)
              => InvalidTarget

\* the tokens that start a declaration
DeclarationStart == {"Let", "Print", "If", "While", "Fn"}

\* the next statement boundary at or after the cursor `from`: just after
\* the next semicolon or just before the next token that starts a
\* declaration (or at the end of input)
Boundary(tokens, from) ==
    LET stops(k) ==
            \/ tokens[k + 1].tag \in DeclarationStart \cup {"EOF"}
            \/ k > from /\ tokens[k].tag = "Semicolon"
    IN CHOOSE k \in from..(Len(tokens) - 1) :
           stops(k) /\ \A j \in from..(k - 1) : ~stops(j)

\* parse, run to its end
RECURSIVE Program(_)
Program(p) ==
    LET turn(r) ==
            IF r.p.pc = "panic" THEN r.p
            ELSE [r.p EXCEPT !.statements =
                      IF r.value.some THEN Append(@, r.value.value) ELSE @]
    IN IF p.pc # "parsing" THEN p
       ELSE IF Parser_is_at_end(p) THEN [p EXCEPT !.pc = "done"]
       ELSE Program(turn(statement("declaration", p)))

\* the declarations that begin at or after the cursor k are well formed:
\* they parse without an error
WellFormedFrom(tokens, k) ==
    LET rest == Program(Parser_new(SubSeq(tokens, k + 1, Len(tokens))))
    IN rest.pc = "done" /\ rest.recoveries = <<>>

\* C25: after a syntax error inside a top-level declaration the parser
\* discards tokens only up to the next statement boundary, just after the
\* next semicolon or just before the next `let`, `print`, `if`, `while` or
\* `fn`, and goes on from there, so every well-formed declaration from the
\* boundary on is in the Program.
C25_RecoversAtBoundary ==
    parser # None =>
        /\ \A k \in 1..Len(parser.recoveries) :
               parser.recoveries[k].to =
                   Boundary(parser.tokens, parser.recoveries[k].from)
        /\ ParseDone /\ Len(parser.recoveries) = 1
           /\ parser.recoveries[1].from = 1
           /\ WellFormedFrom(parser.tokens, Boundary(parser.tokens, 1))
           => parser.statements =
                  Program(Parser_new(
                      SubSeq(parser.tokens, Boundary(parser.tokens, 1) + 1,
                             Len(parser.tokens)))).statements

\* the cursor of the end-of-input token
EndOfInput == Len(parser.tokens) - 1

\* C30: on a token sequence that ends with the end-of-input token parse
\* terminates or aborts with a syntax error; every turn of the loop of
\* parse and of the loop of block consumes at least one token, also when
\* it went through synchronize; the cursor never passes the end-of-input
\* token, and neither the token before position 0 nor one after the last is
\* ever read.
C30_ParserProgress ==
    /\ <>(ParseDone \/ ParsePanicked)
    /\ [](parser # None =>
            /\ parser.current <= EndOfInput
            /\ \A k \in 1..Len(parser.turns) :
                   parser.turns[k].before < parser.turns[k].after
            /\ \A k \in 1..Len(parser.recoveries) :
                   parser.recoveries[k].from <= parser.recoveries[k].to
            /\ parser.message \notin {"attempt to subtract with overflow",
                                      "index out of bounds"})
    /\ [][Parsing /\ Parsing' => parser'.current > parser.current]_vars

C30_Witness ==
    /\ ParseDone
    /\ parser.current = EndOfInput
    /\ \E k \in 1..Len(parser.turns) : parser.turns[k].loop = "block"
    /\ \E k \in 1..Len(parser.turns) : parser.turns[k].loop = "parse"
    /\ parser.recoveries # <<>>

----------------------------------------------------------------------------
(* C26: a negative index is out of range for every array                   *)

\* C26: an index read a[i] and an index write a[i] = 9 with a negative
\* Number i abort the run with the out-of-bounds error whatever the length
\* of the Array a: no element is selected, a is left as it was and nothing
\* is bound to the result.
C26_NegativeIndexOutOfRange ==
    [][(/\ status = "ok"
        /\ ret'.op = "execute"
        /\ ret'.stmt \in {ErrorScripts.read_i, ErrorScripts.write_i}
        /\ Holds(Id("a"), "Array")
        /\ Holds(Id("i"), "Number")
        /\ Globals(frames)[Id("i")].n < 0)
       => /\ status' = "panic"
          /\ ret'.message = "Array index out of bounds"
          /\ Globals(frames')[Id("a")] = Globals(frames)[Id("a")]
          /\ Id("r") \in DOMAIN Globals(frames')
                 => /\ Id("r") \in DOMAIN Globals(frames)
                    /\ Globals(frames')[Id("r")] = Globals(frames)[Id("r")]
      ]_vars

\* a read at index -2 of the two-element Array a has aborted the run
C26_Witness ==
    /\ ret.op = "execute"
    /\ ret.stmt = ErrorScripts.read_i
    /\ status = "panic"
    /\ ret.message = "Array index out of bounds"
    /\ Holds(Id("i"), "Number")
    /\ Globals(frames)[Id("i")].n = 0 - 2
    /\ Holds(Id("a"), "Array")
    /\ Len(Globals(frames)[Id("a")].arr) = 2

----------------------------------------------------------------------------
(* C27: a return that reaches the top level does not end the program       *)

\* C27: after a top-level statement that produced a propagating return the
\* run goes on, so that interpret executes the statements that follow, and
\* what the statement changed before its return is kept: x is 5 after
\* { x = 5; return ..; }.
C27_ReturnDoesNotEndProgram ==
    (ret.op = "execute" /\ ret.result.err) =>
        /\ status = "ok"
        /\ ret.stmt \in {FlowScripts.block_return_7,
                         FlowScripts.block_return_h}
               => Globals(frames)[Id("x")] = Number(5)

----------------------------------------------------------------------------
(* C28: index and field writes operate on a snapshot of the variable       *)

\* the statements that write to v while the index or the value of a write
\* to v is evaluated, with the variable, the key and the value of the outer
\* write
Snapshots ==
    {DataScripts.snap_index, DataScripts.snap_dot, DataScripts.snap_array,
     DataScripts.snap_key, DataScripts.snap_call, DataScripts.snap_call_dot}

OuterWrite(stmt) ==
    CASE stmt = DataScripts.snap_array ->
             [name |-> Id("a"), key |-> 0, value |-> Number(5)]
      [] stmt \in {DataScripts.snap_index, DataScripts.snap_dot} ->
             [name |-> Id("m"), key |-> Id("a"), value |-> Number(2)]
      [] stmt = DataScripts.snap_key ->
             [name |-> Id("m"), key |-> Id("a"), value |-> Number(3)]
      [] OTHER ->
             [name |-> Id("m"), key |-> Id("a"), value |-> Number(4)]

\* C28: v[i] = e and v.f = e write back the Array or Map that v held before
\* i and e were evaluated, with the one entry stored: a write to v made
\* while i or e is evaluated (m["a"] = (m["b"] = 2), m[(m.b = "a")] = 3, a
\* call that assigns m) is lost, and after the statement v is its value
\* from before the statement with only that entry changed; no other
\* variable changed.
C28_SnapshotWrites ==
    [][(ret'.op = "execute" /\ status' = "ok" /\ ret'.stmt \in Snapshots)
         => LET w == OuterWrite(ret'.stmt)
                before == Globals(frames)
                after == Globals(frames')
            IN /\ DOMAIN after = DOMAIN before
               /\ after[w.name] = Stored(before[w.name], w.key, w.value)
               /\ \A name \in DOMAIN before \ {w.name} :
                      after[name] = before[name]
       ]_vars

\* m was {"a": 1}; after m["a"] = (m["b"] = 2) it is {"a": 2}, the entry
\* "b" written while the value was evaluated is gone; and a[1] is still [3]
\* after a[0] = (a[1] = 5)
C28_Witness ==
    /\ ret.op = "execute" /\ ret.stmt = DataScripts.snap_index
    /\ status = "ok"
    /\ Globals(frames)[Id("m")] = Map(Id("a") :> Number(2))
    /\ Id("a") \in DOMAIN Globals(frames)
    /\ Globals(frames)[Id("a")].arr[1] = Number(5)
    /\ Globals(frames)[Id("a")].arr[2] = Array(<<Number(3)>>)

----------------------------------------------------------------------------
(* C29: a for loop iterates over the value its iterable had at the start   *)

\* the loops whose body assigns or writes to the array that is iterated
Reiterations ==
    {FlowScripts.for_reassign, FlowScripts.for_write, FlowScripts.for_grow,
     FlowScripts.for_bump}

\* what is printed for the elements, one line each
RECURSIVE PrintedElements(_)
PrintedElements(elements) ==
    IF elements = <<>> THEN <<>>
    ELSE value_to_string(Head(elements)) \o <<"\n">>
             \o PrintedElements(Tail(elements))

\* C29: a for loop over a runs its body once for each element that a held
\* when the loop started, in order and with that element bound to the loop
\* variable, whatever the body assigns to a (a = [], a = [e, e, e]) or
\* writes into it (a[1] = 9); and the iterable expression is evaluated
\* once: the loop over bump(), which adds 1 to x and returns a, leaves x
\* one higher.
C29_IteratesOverInitialValue ==
    [][(/\ ret'.op = "execute" /\ status' = "ok"
        /\ ret'.stmt \in Reiterations)
         => LET elements == Globals(frames)[Id("a")].arr
                started == SelectSeq(trace', LAMBDA event :
                                                 event.ev = "iteration")
            IN /\ Len(started) = Len(elements)
               /\ \A k \in 1..Len(elements) :
                      /\ started[k].index = k
                      /\ started[k].element = elements[k]
               /\ output' = PrintedElements(elements)
               /\ ret'.stmt = FlowScripts.for_bump
                      => Globals(frames')[Id("x")] =
                             Number(Globals(frames)[Id("x")].n + 1)
       ]_vars

\* the loop over a = [4, 5] whose body sets a = [] has printed 4 and 5 and
\* left a empty
C29_Witness ==
    /\ ret.op = "execute" /\ ret.stmt = FlowScripts.for_reassign
    /\ status = "ok"
    /\ output = <<"4", "\n", "5", "\n">>
    /\ Globals(frames)[Id("a")] = Array(<<>>)

====
